---- MODULE Spec2Model ----
(***************************************************************************)
(* Model of the beatmap (.osu) parser, the timing resolver, the highlight  *)
(* range builders and the progress calculator of the mosu! tracker.        *)
(*                                                                         *)
(* Text is modelled as sequences of one-character strings, a file as the   *)
(* sequence of its physical lines.  A JavaScript number is a record        *)
(* [nan, n, d]: NaN, or the rational n/d in lowest terms with d > 0, and   *)
(* arithmetic is exact.  The files given to the parsers are chosen so that *)
(* every intermediate value is exactly representable as an IEEE double;    *)
(* the rounding of fractions such as 0.1 is not modelled, and Infinity is  *)
(* outside the input domain.                                               *)
(***************************************************************************)
EXTENDS Integers, Sequences, FiniteSets, TLC

(***************************************************************************)
(* JavaScript numbers                                                      *)
(***************************************************************************)
Abs(x) == IF x < 0 THEN -x ELSE x

RECURSIVE Gcd(_, _)
Gcd(a, b) == IF b = 0 THEN a ELSE Gcd(b, a % b)

NaN == [nan |-> TRUE, n |-> 0, d |-> 1]

\* the rational n/d (d # 0) in lowest terms
Rat(n, d) ==
    LET g == Gcd(Abs(n), Abs(d))
        s == IF d < 0 THEN -1 ELSE 1
    IN  [nan |-> FALSE, n |-> s * (n \div g), d |-> s * (d \div g)]

Num(k) == [nan |-> FALSE, n |-> k, d |-> 1]

IsNaN(x) == x.nan

JsAdd(x, y) == IF x.nan \/ y.nan THEN NaN ELSE Rat(x.n * y.d + y.n * x.d, x.d * y.d)
JsSub(x, y) == IF x.nan \/ y.nan THEN NaN ELSE Rat(x.n * y.d - y.n * x.d, x.d * y.d)
JsMul(x, y) == IF x.nan \/ y.nan THEN NaN ELSE Rat(x.n * y.n, x.d * y.d)
\* x / y; the divisor is never zero on the modelled inputs (0/0 is NaN)
JsDiv(x, y) == IF x.nan \/ y.nan \/ y.n = 0 THEN NaN ELSE Rat(x.n * y.d, x.d * y.n)

\* comparisons: false as soon as one side is NaN
JsLt(x, y) == ~x.nan /\ ~y.nan /\ x.n * y.d < y.n * x.d
JsGt(x, y) == JsLt(y, x)
JsLe(x, y) == ~x.nan /\ ~y.nan /\ x.n * y.d <= y.n * x.d
JsGe(x, y) == JsLe(y, x)

\* Math.max / Math.min / Math.floor: NaN as soon as one argument is NaN
JsMax(x, y) == IF x.nan \/ y.nan THEN NaN ELSE IF JsLt(x, y) THEN y ELSE x
JsMin(x, y) == IF x.nan \/ y.nan THEN NaN ELSE IF JsLt(y, x) THEN y ELSE x
JsFloor(x) == IF x.nan THEN NaN ELSE Num(x.n \div x.d)

\* x || dflt : NaN and 0 are falsy
JsOr(x, dflt) == IF x.nan \/ x.n = 0 THEN dflt ELSE x
\* !x for a number, for null and for undefined
JsFalsy(x) == IF "nan" \in DOMAIN x THEN x.nan \/ x.n = 0 ELSE TRUE

\* ToInt32 / ToInt16 of a store into an Int32Array / Int16Array element:
\* NaN becomes 0, a fraction is truncated toward zero, the integer wraps.
\* Every modelled magnitude is below 2^31 (the range of TLC's
\* integers), where the wrap of ToInt32 is the identity.
Trunc(x) == IF x.n >= 0 THEN x.n \div x.d ELSE -((-x.n) \div x.d)
Wrap16(k) == LET m == k % 65536 IN IF m >= 32768 THEN m - 65536 ELSE m
ToInt32(x) == IF x.nan THEN 0 ELSE Trunc(x)
ToInt16(x) == IF x.nan THEN 0 ELSE Wrap16(Trunc(x))

\* (x & mask) # 0 for a one-bit mask 2^bit; the operand goes through ToInt32
BitSet(x, bit) == ((ToInt32(x) \div (2 ^ bit)) % 2) = 1

(***************************************************************************)
(* Text                                                                    *)
(***************************************************************************)
Digits == <<"0", "1", "2", "3", "4", "5", "6", "7", "8", "9">>
IsDigit(c) == \E k \in 1..10 : Digits[k] = c
DigitVal(c) == (CHOOSE k \in 1..10 : Digits[k] = c) - 1

Upper == <<"A","B","C","D","E","F","G","H","I","J","K","L","M",
           "N","O","P","Q","R","S","T","U","V","W","X","Y","Z">>
Lower == <<"a","b","c","d","e","f","g","h","i","j","k","l","m",
           "n","o","p","q","r","s","t","u","v","w","x","y","z">>
\* charCode in 65..90 ? charCode + 32 : charCode
LowerChar(c) ==
    IF \E k \in 1..26 : Upper[k] = c
    THEN Lower[CHOOSE k \in 1..26 : Upper[k] = c]
    ELSE c
toLowerCase(s) == [k \in 1..Len(s) |-> LowerChar(s[k])]

\* s.slice(from, to) on 1-based positions: the characters from..to-1
Slice(s, from, to) == SubSeq(s, from, to - 1)

\* first position >= from holding c, or 0 (String.indexOf)
RECURSIVE indexOf(_, _, _)
indexOf(s, c, from) ==
    IF from > Len(s) THEN 0
    ELSE IF s[from] = c THEN from
    ELSE indexOf(s, c, from + 1)

\* s.split(c)
RECURSIVE split(_, _)
split(s, c) ==
    LET p == indexOf(s, c, 1)
    IN  IF p = 0 THEN <<s>>
        ELSE <<Slice(s, 1, p)>> \o split(Slice(s, p + 1, Len(s) + 1), c)

IsSpaceTab(c) == c = " " \/ c = "\t"
\* String.prototype.trim also removes line terminators and the byte-order mark
\* (written "BOM")
IsWhite(c) == IsSpaceTab(c) \/ c = "\r" \/ c = "\n" \/ c = "BOM"

RECURSIVE SkipWhile(_, _, _)
\* first position >= i (at most to) whose character is not space or tab
SkipWhile(s, i, to) ==
    IF i < to /\ IsSpaceTab(s[i]) THEN SkipWhile(s, i + 1, to) ELSE i

RECURSIVE BackWhile(_, _, _)
BackWhile(s, from, to) ==
    IF to > from /\ IsSpaceTab(s[to - 1]) THEN BackWhile(s, from, to - 1) ELSE to

\* extractTrimmed(str, start, end): positions are 1-based, end exclusive
extractTrimmed(s, start, end) ==
    LET a == SkipWhile(s, start, end)
        b == BackWhile(s, a, end)
    IN  Slice(s, a, b)

RECURSIVE TrimLeft(_)
TrimLeft(s) == IF Len(s) > 0 /\ IsWhite(s[1]) THEN TrimLeft(Tail(s)) ELSE s
RECURSIVE TrimRight(_)
TrimRight(s) ==
    IF Len(s) > 0 /\ IsWhite(s[Len(s)]) THEN TrimRight(SubSeq(s, 1, Len(s) - 1)) ELSE s
\* String.prototype.trim
trim(s) == TrimRight(TrimLeft(s))

\* the run of decimal digits of s from position i: its value, the position
\* after it, and whether it holds a digit at all
RECURSIVE ScanDigits(_, _, _, _)
ScanDigits(s, i, acc, cnt) ==
    IF i <= Len(s) /\ IsDigit(s[i])
    THEN ScanDigits(s, i + 1, acc * 10 + DigitVal(s[i]), cnt + 1)
    ELSE [val |-> acc, pos |-> i, cnt |-> cnt]

\* parseInt(s): leading white space, a sign, decimal digits; NaN without digit
parseInt(s) ==
    LET t == TrimLeft(s)
        neg == Len(t) > 0 /\ t[1] = "-"
        i == IF Len(t) > 0 /\ (t[1] = "-" \/ t[1] = "+") THEN 2 ELSE 1
        r == ScanDigits(t, i, 0, 0)
    IN  IF r.cnt = 0 THEN NaN ELSE Num(IF neg THEN -r.val ELSE r.val)

RECURSIVE Pow10(_)
Pow10(k) == IF k = 0 THEN 1 ELSE 10 * Pow10(k - 1)

RECURSIVE Decimal(_)
\* the decimal digits of a natural number
Decimal(n) ==
    IF n < 10 THEN <<Digits[n + 1]>>
    ELSE Decimal(n \div 10) \o <<Digits[(n % 10) + 1]>>

\* parseFloat(s): leading white space, a sign, digits, an optional fraction
\* (exponents and the literal Infinity are outside the input domain)
parseFloat(s) ==
    LET t == TrimLeft(s)
        neg == Len(t) > 0 /\ t[1] = "-"
        i == IF Len(t) > 0 /\ (t[1] = "-" \/ t[1] = "+") THEN 2 ELSE 1
        ip == ScanDigits(t, i, 0, 0)
        dot == ip.pos <= Len(t) /\ t[ip.pos] = "."
        fp == IF dot THEN ScanDigits(t, ip.pos + 1, 0, 0)
                     ELSE [val |-> 0, pos |-> ip.pos, cnt |-> 0]
        mag == Rat(ip.val * Pow10(fp.cnt) + fp.val, Pow10(fp.cnt))
    IN  IF ip.cnt = 0 /\ fp.cnt = 0 THEN NaN
        ELSE IF neg THEN JsSub(Num(0), mag) ELSE mag

\* fastParseInt(str, start, end): null is modelled as NaN
fastParseInt(s, start, end) ==
    LET i0 == SkipWhile(s, start, end)
        neg == i0 <= Len(s) /\ s[i0] = "-"
        i == IF i0 <= Len(s) /\ (s[i0] = "-" \/ s[i0] = "+") THEN i0 + 1 ELSE i0
        r == ScanDigits(Slice(s, 1, end), i, 0, 0)
    IN  IF r.cnt = 0 THEN NaN ELSE Num(IF neg THEN -r.val ELSE r.val)

(***************************************************************************)
(* Sections                                                                *)
(***************************************************************************)
SECTIONS == [NONE |-> 0, GENERAL |-> 1, EDITOR |-> 2, METADATA |-> 3,
             DIFFICULTY |-> 4, EVENTS |-> 5, TIMING_POINTS |-> 6,
             COLOURS |-> 7, HIT_OBJECTS |-> 8]

\* matchesAt(str, pos, match): match is lower case, str is lowered per char
matchesAt(str, pos, match) ==
    IF pos + Len(match) > Len(str) + 1 THEN FALSE
    ELSE \A k \in 1..Len(match) : LowerChar(str[pos + k - 1]) = match[k]

\* identifySection(str, start, end): the name is str[start .. end-1]
identifySection(str, start, end) ==
    LET length == end - start
    IN  CASE length = 6 ->
                IF matchesAt(str, start, <<"e","d","i","t","o","r">>) THEN SECTIONS.EDITOR
                ELSE IF matchesAt(str, start, <<"e","v","e","n","t","s">>) THEN SECTIONS.EVENTS
                ELSE IF matchesAt(str, start, <<"c","o","l","o","u","r","s">>) THEN SECTIONS.COLOURS
                ELSE SECTIONS.NONE
          [] length = 7 ->
                IF matchesAt(str, start, <<"g","e","n","e","r","a","l">>) THEN SECTIONS.GENERAL
                ELSE SECTIONS.NONE
          [] length = 8 ->
                IF matchesAt(str, start, <<"m","e","t","a","d","a","t","a">>) THEN SECTIONS.METADATA
                ELSE SECTIONS.NONE
          [] length = 10 ->
                IF matchesAt(str, start, <<"d","i","f","f","i","c","u","l","t","y">>)
                THEN SECTIONS.DIFFICULTY
                ELSE IF matchesAt(str, start, <<"h","i","t","o","b","j","e","c","t","s">>)
                THEN SECTIONS.HIT_OBJECTS
                ELSE SECTIONS.NONE
          [] length = 12 ->
                IF matchesAt(str, start,
                             <<"t","i","m","i","n","g","p","o","i","n","t","s">>)
                THEN SECTIONS.TIMING_POINTS
                ELSE SECTIONS.NONE
          [] OTHER -> SECTIONS.NONE

(***************************************************************************)
(* Timing resolver                                                         *)
(***************************************************************************)
\* 60000 / 120 and 1.0: the resolver's state before the first point
TimingStart == [beatLength |-> Rat(60000, 120), sv |-> Num(1)]

\* the exit test with >= in place of >
TimingBreak_Ge(tp, time) == JsGe(tp.time, time)

\* the loop's exit test: if (tp.time > time) break
TimingBreak(tp, time) == JsGt(tp.time, time)

\* body of the loop of getTimingInfo (scanner worker)
getTimingInfoBody(tp, st) ==
    IF tp.uninherited
    THEN [beatLength |-> tp.beatLength, sv |-> Num(1)]
    ELSE IF JsLt(tp.beatLength, Num(0))
         THEN [beatLength |-> st.beatLength, sv |-> JsDiv(Num(-100), tp.beatLength)]
         ELSE [beatLength |-> st.beatLength, sv |-> Num(1)]

\* body of the loop of parseHitObjects.getTiming (renderer)
getTimingBody(tp, st) ==
    IF tp.uninherited
    THEN [beatLength |-> tp.beatLength, sv |-> Num(1)]
    ELSE IF JsLt(tp.beatLength, Num(0))
         THEN [beatLength |-> st.beatLength, sv |-> JsDiv(Num(-100), tp.beatLength)]
         ELSE st

RECURSIVE getTimingInfoFrom(_, _, _, _)
getTimingInfoFrom(time, tps, i, st) ==
    IF i > Len(tps) THEN st
    ELSE IF TimingBreak(tps[i], time) THEN st
    ELSE getTimingInfoFrom(time, tps, i + 1, getTimingInfoBody(tps[i], st))

getTimingInfo(time, tps) == getTimingInfoFrom(time, tps, 1, TimingStart)

RECURSIVE getTimingFrom(_, _, _, _)
getTimingFrom(time, tps, i, st) ==
    IF i > Len(tps) THEN st
    ELSE IF TimingBreak(tps[i], time) THEN st
    ELSE getTimingFrom(time, tps, i + 1, getTimingBody(tps[i], st))

getTiming(time, tps) == getTimingFrom(time, tps, 1, TimingStart)

(***************************************************************************)
(* Line handlers of the scanner worker; null is [some |-> FALSE]           *)
(***************************************************************************)
Null == [some |-> FALSE]
Undefined == [undefined |-> TRUE]
Some(v) == [some |-> TRUE, val |-> v]

\* parseSliderMultiplier without the default of 1.0 for a value that is 0
\* or not a number
parseSliderMultiplier_NoDefault(line) ==
    LET colonIdx == indexOf(line, ":", 1)
    IN  IF colonIdx = 0 THEN Null
        ELSE IF toLowerCase(extractTrimmed(line, 1, colonIdx))
                    = <<"s","l","i","d","e","r","m","u","l","t","i","p","l","i","e","r">>
        THEN Some(parseFloat(extractTrimmed(line, colonIdx + 1, Len(line) + 1)))
        ELSE Null


\* parseSliderMultiplier(content, start, end) on the trimmed line
parseSliderMultiplier(line) ==
    LET colonIdx == indexOf(line, ":", 1)
    IN  IF colonIdx = 0 THEN Null
        ELSE IF toLowerCase(extractTrimmed(line, 1, colonIdx))
                    = <<"s","l","i","d","e","r","m","u","l","t","i","p","l","i","e","r">>
        THEN Some(JsOr(parseFloat(extractTrimmed(line, colonIdx + 1, Len(line) + 1)), Num(1)))
        ELSE Null

\* parseTimingPoint(content, start, end) on the trimmed line
parseTimingPoint(line) ==
    LET parts == split(extractTrimmed(line, 1, Len(line) + 1), ",")
    IN  IF Len(parts) < 2 THEN Null
        ELSE Some([time |-> parseInt(parts[1]),
                   beatLength |-> parseFloat(parts[2]),
                   uninherited |-> IF Len(parts) > 6 THEN parts[7] = <<"1">> ELSE TRUE])

\* sliderEnd without the scroll velocity in the divisor
sliderEnd_NoSV(time, slides, length, sliderMultiplier, timing) ==
    LET duration ==
            JsMul(JsMul(JsDiv(length, JsMul(sliderMultiplier, Num(100))),
                        timing.beatLength),
                  slides)
    IN  JsAdd(time, JsMax(Num(0), JsFloor(duration)))

\* duration of a slider and the end time derived from it
sliderEnd(time, slides, length, sliderMultiplier, timing) ==
    LET duration ==
            JsMul(JsMul(JsDiv(length,
                              JsMul(JsMul(sliderMultiplier, Num(100)), timing.sv)),
                        timing.beatLength),
                  slides)
    IN  JsAdd(time, JsMax(Num(0), JsFloor(duration)))

\* the chain on the type bits with the spinner asked before the slider
hitEndTime_SpinnerFirst(parts, time, type, sliderMultiplier, timing) ==
    IF BitSet(type, 3)
    THEN IF Len(parts) >= 6 THEN JsOr(parseInt(parts[6]), time) ELSE time
    ELSE IF BitSet(type, 1)
    THEN IF Len(parts) >= 8
         THEN sliderEnd(time, JsOr(parseInt(parts[7]), Num(1)),
                        JsOr(parseFloat(parts[8]), Num(0)), sliderMultiplier, timing)
         ELSE time
    ELSE IF BitSet(type, 7)
    THEN IF Len(parts) >= 6 THEN JsOr(parseInt(split(parts[6], ":")[1]), time) ELSE time
    ELSE time

\* the if / else-if chain on the type bits; timing is the resolver's result at time
hitEndTime(parts, time, type, sliderMultiplier, timing) ==
    IF BitSet(type, 1)
    THEN IF Len(parts) >= 8
         THEN sliderEnd(time, JsOr(parseInt(parts[7]), Num(1)),
                        JsOr(parseFloat(parts[8]), Num(0)), sliderMultiplier, timing)
         ELSE time
    ELSE IF BitSet(type, 3)
    THEN IF Len(parts) >= 6 THEN JsOr(parseInt(parts[6]), time) ELSE time
    ELSE IF BitSet(type, 7)
    THEN IF Len(parts) >= 6 THEN JsOr(parseInt(split(parts[6], ":")[1]), time) ELSE time
    ELSE time

\* parseHitObject that accepts a line of three fields as a circle
parseHitObject_ThreeFields(line, sliderMultiplier, tps) ==
    LET parts == split(extractTrimmed(line, 1, Len(line) + 1), ",")
        time == parseInt(parts[3])
        type == parseInt(parts[4])
        endTime == hitEndTime(parts, time, type, sliderMultiplier,
                              getTimingInfo(time, tps))
    IN  IF Len(parts) < 3 THEN Null
        ELSE IF Len(parts) = 3 THEN Some([start |-> time, end |-> time, type |-> Num(1)])
        ELSE Some([start |-> time, end |-> JsMax(time, endTime), type |-> type])

\* parseHitObject(content, lineStart, lineEnd, sliderMultiplier, timingPoints)
parseHitObject(line, sliderMultiplier, tps) ==
    LET parts == split(extractTrimmed(line, 1, Len(line) + 1), ",")
        time == parseInt(parts[3])
        type == parseInt(parts[4])
        endTime == hitEndTime(parts, time, type, sliderMultiplier,
                              getTimingInfo(time, tps))
    IN  IF Len(parts) < 4 THEN Null
        ELSE Some([start |-> time, end |-> JsMax(time, endTime), type |-> type])

\* string literals of the handlers
JPG == <<"j","p","g">>
JPEG == <<"j","p","e","g">>
PNG == <<"p","n","g">>
WEBP == <<"w","e","b","p">>
GIF == <<"g","i","f">>
BMP == <<"b","m","p">>
BOOKMARKS_KEY == <<"b","o","o","k","m","a","r","k","s",":">>
KEY_TITLE == <<"t","i","t","l","e">>
KEY_ARTIST == <<"a","r","t","i","s","t">>
KEY_CREATOR == <<"c","r","e","a","t","o","r">>
KEY_VERSION == <<"v","e","r","s","i","o","n">>
KEY_BEATMAPSETID == <<"b","e","a","t","m","a","p","s","e","t","i","d">>
KEY_AUDIOFILENAME == <<"a","u","d","i","o","f","i","l","e","n","a","m","e">>
KEY_PREVIEWTIME == <<"p","r","e","v","i","e","w","t","i","m","e">>
URL_PREFIX == <<"h","t","t","p","s",":","/","/","o","s","u",".","p","p","y",".","s","h","/","b","e","a","t","m","a","p","s","e","t","s","/">>

\* isImageExtension(filename)
RECURSIVE lastIndexOf(_, _, _)
lastIndexOf(s, c, from) ==
    IF from < 1 THEN 0 ELSE IF s[from] = c THEN from ELSE lastIndexOf(s, c, from - 1)

isImageExtension(filename) ==
    LET lastDot == lastIndexOf(filename, ".", Len(filename))
        ext == toLowerCase(Slice(filename, lastDot + 1, Len(filename) + 1))
    IN  lastDot # 0 /\ ext \in {JPG, JPEG, PNG, WEBP, GIF, BMP}

IsQuoteSpaceTab(c) == IsSpaceTab(c) \/ c = "'"

RECURSIVE StripBg(_)
\* the background file name without surrounding space, tab and quote
StripBg(s) ==
    IF Len(s) > 0 /\ IsQuoteSpaceTab(s[1]) THEN StripBg(Tail(s))
    ELSE IF Len(s) > 0 /\ IsQuoteSpaceTab(s[Len(s)]) THEN StripBg(SubSeq(s, 1, Len(s) - 1))
    ELSE s

\* parseEventLine(content, start, end, metadata, breakPeriods): the result
\* after the line; a quote is written ' in the modelled text
parseEventLine(line, res) ==
    LET parts == split(line, ",")
        commaCount == Len(parts) - 1
        isBg == line[1] = "0" /\ Len(line) > 1 /\ line[2] = ","
        isBreak == line[1] = "2" /\ Len(line) > 1 /\ line[2] = ","
        bg == StripBg(parts[3])
        breakStart == IF commaCount >= 2 THEN fastParseInt(parts[2], 1, Len(parts[2]) + 1)
                      ELSE Num(-1)
        breakEnd == IF commaCount >= 2 THEN fastParseInt(parts[3], 1, Len(parts[3]) + 1)
                    ELSE Num(-1)
    IN  IF isBg
        THEN IF commaCount >= 2 /\ isImageExtension(bg)
             THEN [res EXCEPT !.metadata.background = bg]
             ELSE res
        ELSE IF isBreak /\ ~IsNaN(breakStart) /\ ~IsNaN(breakEnd)
        THEN [res EXCEPT !.breakPeriods =
                 Append(@, [start |-> breakStart.n, end |-> breakEnd.n])]
        ELSE res

RECURSIVE bookmarkNumbers(_)
\* the integers of the comma-separated tokens; empty and non-numeric ones drop
bookmarkNumbers(parts) ==
    IF parts = <<>> THEN <<>>
    ELSE LET num == fastParseInt(parts[1], 1, Len(parts[1]) + 1)
         IN  (IF Len(parts[1]) > 0 /\ ~IsNaN(num) THEN <<num.n>> ELSE <<>>)
             \o bookmarkNumbers(Tail(parts))

\* parseEditorLine(content, start, end, bookmarks)
parseEditorLine(line, res) ==
    IF matchesAt(line, 1, BOOKMARKS_KEY)
    THEN [res EXCEPT !.bookmarks =
             @ \o bookmarkNumbers(split(Slice(line, 11, Len(line) + 1), ","))]
    ELSE res

\* parseMetadataLine(content, start, end, metadata)
parseMetadataLine(line, res) ==
    LET colonIdx == indexOf(line, ":", 1)
        key == toLowerCase(extractTrimmed(line, 1, colonIdx))
        value == extractTrimmed(line, colonIdx + 1, Len(line) + 1)
        id == fastParseInt(value, 1, Len(value) + 1)
    IN  IF colonIdx = 0 THEN res
        ELSE CASE key = KEY_TITLE -> [res EXCEPT !.metadata.title = value]
               [] key = KEY_ARTIST -> [res EXCEPT !.metadata.artist = value]
               [] key = KEY_CREATOR -> [res EXCEPT !.metadata.creator = value]
               [] key = KEY_VERSION -> [res EXCEPT !.metadata.version = value]
               [] key = KEY_BEATMAPSETID ->
                    [res EXCEPT !.metadata.beatmapSetID =
                        IF ~IsNaN(id) /\ id.n > 0 THEN URL_PREFIX \o value ELSE value]
               [] OTHER -> res

\* parseGeneralLine(content, start, end, metadata)
parseGeneralLine(line, res) ==
    LET colonIdx == indexOf(line, ":", 1)
        key == toLowerCase(extractTrimmed(line, 1, colonIdx))
        pTime == fastParseInt(line, colonIdx + 1, Len(line) + 1)
    IN  IF colonIdx = 0 THEN res
        ELSE IF key = KEY_AUDIOFILENAME
        THEN [res EXCEPT !.metadata.audio = extractTrimmed(line, colonIdx + 1, Len(line) + 1)]
        ELSE IF key = KEY_PREVIEWTIME /\ ~IsNaN(pTime)
        THEN [res EXCEPT !.metadata.previewTime = pTime.n]
        ELSE res

(***************************************************************************)
(* State                                                                   *)
(***************************************************************************)
VARIABLES
    content,          \* the lines of the file read so far by parseOsuFile
    wpc,              \* parseOsuFile: "parsing", "done" once it has returned
    section,          \* parseOsuFile: active section identifier
    sliderMultiplier, \* parseOsuFile
    timingPoints,     \* parseOsuFile
    hitStartsArray,   \* parseOsuFile: Int32Array
    hitEndsArray,     \* parseOsuFile: Int32Array
    hitTypesArray,    \* parseOsuFile: Int16Array
    hitCount,         \* parseOsuFile
    result,           \* parseOsuFile: the object it returns
    rline,            \* parseHitObjects: number of lines of content it has read
    rpc,              \* parseHitObjects: "parsing", "done" once it has returned
    rsection,         \* parseHitObjects: section (lower-cased name)
    inHitObjects,     \* parseHitObjects
    rSliderMultiplier,\* parseHitObjects: sliderMultiplier
    rTimingPoints,    \* parseHitObjects: timingPoints
    hitStarts,        \* parseHitObjects
    hitEnds,          \* parseHitObjects
    hitTypes,         \* parseHitObjects
    qtime,            \* resolver call: the argument time
    qpoints,          \* resolver call: the timing points it scans
    gtiScan,          \* getTimingInfo: loop position i, activeBPM, activeSV, done
    gtScan,           \* getTiming: loop position i, activeBPM, activeSV, done
    durationMs,       \* processWorkerResult: totalDuration, given to the builders
    objectStarts,     \* processWorkerResult: hitStarts of the parsed file
    objectEnds,       \* processWorkerResult: hitEnds of the parsed file
    breakPeriods,     \* processWorkerResult: breakPeriods of the parsed file
    bookmarks,        \* processWorkerResult: bookmarks of the parsed file
    objectRanges,     \* processWorkerResult: result of buildHighlightRanges
    breakRanges,      \* processWorkerResult: result of buildBreakRanges
    bookmarkRanges,   \* processWorkerResult: result of buildBookmarkRanges
    bpc,              \* processWorkerResult: the next step, "idle" when not running
    settings,         \* the settings object (the field read by computeProgress)
    highlights,       \* the highlight ranges of the item
    progress,         \* the progress of the item
    ppc,              \* "call" while computeProgress is to run on a loaded item
    storedHighlights, \* the highlights field of the item in the saved payload
    spc,              \* storage: "new", "saved" after saveToStorage, "loaded"
    disk,             \* per path, the version of the file on disk
    heap,             \* the item objects ever created; an item is referred
                      \* to by its index
    beatmapItems,     \* the list of items (references)
    audioAnalysisQueue,
    isAnalyzingAudio,
    audioTask,        \* where processAudioQueue waits, and its local item
    playTask,         \* where AudioController.play waits, and its local item
    saveTimer,        \* TRUE while the timer of scheduleSave is pending
    savedItems,       \* the items of the payload last written
    rendered,         \* the items as the list last showed them
    refreshTask,      \* where refreshLastDirectory waits, and its locals
    workerData,       \* scanner worker: its slice of files and the mapper filter
    scanTask,         \* scanner worker: position and locals of processFiles
    messages,         \* scanner worker: what it posted to its parent
    pool,             \* main process: the workers of runScannerWorkers and its promise
    todoIds,          \* the ids pinned to the todo list, in order
    doneIds,          \* the ids marked done, in order
    viewMode          \* the tab shown: "all", "todo" or "completed"

workerVars == <<content, wpc, section, sliderMultiplier, timingPoints, hitStartsArray,
                hitEndsArray, hitTypesArray, hitCount, result>>
rendererVars == <<rline, rpc, rsection, inHitObjects, rSliderMultiplier, rTimingPoints,
                  hitStarts, hitEnds, hitTypes>>
parseVars == <<workerVars, rendererVars>>
timingVars == <<qtime, qpoints, gtiScan, gtScan>>
rangeVars == <<durationMs, objectStarts, objectEnds, breakPeriods, bookmarks,
               objectRanges, breakRanges, bookmarkRanges, bpc>>
progressVars == <<settings, highlights, progress, ppc>>
storageVars == <<storedHighlights, spc>>
\* the variables outside the parsers, the resolvers and the builders
libraryVars ==
    <<disk, heap, beatmapItems, audioAnalysisQueue, isAnalyzingAudio, audioTask,
      playTask, saveTimer, savedItems, rendered, refreshTask>>
scanVars == <<workerData, scanTask, messages, pool>>
listVars == <<todoIds, doneIds, viewMode>>
otherVars == <<storageVars, libraryVars, scanVars, listVars>>
\* what the parsers leave alone
notParseVars == <<timingVars, rangeVars, progressVars, otherVars>>
\* what the timing resolvers leave alone
notTimingVars == <<parseVars, rangeVars, progressVars, otherVars>>

(***************************************************************************)
(* Bounds and inputs                                                       *)
(***************************************************************************)
\* section names and keys as parseHitObjects compares them
NAME_DIFFICULTY == <<"d","i","f","f","i","c","u","l","t","y">>
NAME_TIMINGPOINTS == <<"t","i","m","i","n","g","p","o","i","n","t","s">>
NAME_HITOBJECTS == <<"h","i","t","o","b","j","e","c","t","s">>
KEY_SLIDERMULTIPLIER == <<"s","l","i","d","e","r","m","u","l","t","i","p","l","i","e","r">>

\* longest file, in lines, of the parser specification
MaxLines == 4

\* section headers
\*   "[HitObjects]"           
\*   "[timingpoints]"         
\*   "[DIFFICULTY]"           
\*   "[Colours]"              
\*   "[Foo]"                  
HeaderLines ==
    { <<"[","H","i","t","O","b","j","e","c","t","s","]">>,
      <<"[","t","i","m","i","n","g","p","o","i","n","t","s","]">>,
      <<"[","D","I","F","F","I","C","U","L","T","Y","]">>,
      <<"[","C","o","l","o","u","r","s","]">>,
      <<"[","F","o","o","]">> }

\* lines without content
\*   "//c"                    comment
\*   " "                      empty once trimmed
SkipLines ==
    { <<"/","/","c">>,
      <<" ">> }

\* lines of the section Difficulty
\*   "SliderMultiplier:2"     
\*   "SliderMultiplier: -2"   
DifficultyLines ==
    { <<"S","l","i","d","e","r","M","u","l","t","i","p","l","i","e","r",":","2">>,
      <<"S","l","i","d","e","r","M","u","l","t","i","p","l","i","e","r",":"," ","-","2">> }

\* lines of the section TimingPoints
\*   "0,500"                  uninherited, 500 ms per beat
\*   "0,-50,4,2,0,100,0,0"    inherited, SV 2
\*   "0,x"                    uninherited, beat length not numeric
\*   "0,-200"                 uninherited, negative beat length
TimingLines ==
    { <<"0",",","5","0","0">>,
      <<"0",",","-","5","0",",","4",",","2",",","0",",","1","0","0",",","0",",","0">>,
      <<"0",",","x">>,
      <<"0",",","-","2","0","0">> }

\* lines of the section HitObjects
\*   "0,0,0,2,0,L,1,100"      slider at 0
\*   "0,0,100,1"              circle at 100
\*   "0,0,5000,1"             circle at 5000
\*   "0,0,200,6,0,L,2,200"    slider at 200, two slides
\*   "0,0,300,2,0,L"          slider line of 6 fields
\*   "0,0,x,1"                time not numeric
\*   "0,0,5"                  3 fields
\*   "0,0,400,12,0,900"       spinner 400..900
HitLines ==
    { <<"0",",","0",",","0",",","2",",","0",",","L",",","1",",","1","0","0">>,
      <<"0",",","0",",","1","0","0",",","1">>,
      <<"0",",","0",",","5","0","0","0",",","1">>,
      <<"0",",","0",",","2","0","0",",","6",",","0",",","L",",","2",",","2","0","0">>,
      <<"0",",","0",",","3","0","0",",","2",",","0",",","L">>,
      <<"0",",","0",",","x",",","1">>,
      <<"0",",","0",",","5">>,
      <<"0",",","0",",","4","0","0",",","1","2",",","0",",","9","0","0">> }

\* lines that also occur outside their section
\*   "SliderMultiplier:2"     
\*   "0,-50,4,2,0,100,0,0"    
\*   "0,0,100,1"              
StrayLines ==
    { <<"S","l","i","d","e","r","M","u","l","t","i","p","l","i","e","r",":","2">>,
      <<"0",",","-","5","0",",","4",",","2",",","0",",","1","0","0",",","0",",","0">>,
      <<"0",",","0",",","1","0","0",",","1">> }

\* the lines that may follow in a file whose last header names the section name
LinesIn(name) ==
    HeaderLines \cup SkipLines \cup StrayLines \cup
    (CASE name = NAME_DIFFICULTY -> DifficultyLines
       [] name = NAME_TIMINGPOINTS -> TimingLines
       [] name = NAME_HITOBJECTS -> HitLines
       [] OTHER -> {})

Max(a, b) == IF a > b THEN a ELSE b
Zeros(n) == [k \in 1..n |-> 0]

(***************************************************************************)
(* parseOsuFile (scanner worker)                                           *)
(***************************************************************************)
ESTIMATED_HIT_OBJECTS_PER_KB == 20
MinCapacity == 100
\* Math.ceil(content.length / 1024 * ESTIMATED_HIT_OBJECTS_PER_KB)
estimatedHitObjects(contentLength) ==
    (contentLength * ESTIMATED_HIT_OBJECTS_PER_KB + 1023) \div 1024
\* length of the three typed arrays at allocation; every modelled file is
\* shorter than 5120 characters, so that the estimate is at most MinCapacity
InitialCapacity(contentLength) == Max(estimatedHitObjects(contentLength), MinCapacity)

EmptyResult ==
    [metadata |-> [title |-> <<>>, artist |-> <<>>, creator |-> <<>>, version |-> <<>>,
                   audio |-> <<>>, background |-> <<>>, beatmapSetID |-> <<>>,
                   previewTime |-> -1],
     hitStarts |-> <<>>, hitEnds |-> <<>>, breakPeriods |-> <<>>, bookmarks |-> <<>>]

\* the line between lineStart and lineEnd with the byte-order mark left in
WorkerTrim_KeepMark(ln, first) == extractTrimmed(ln, 1, Len(ln) + 1)

\* the line between lineStart and lineEnd: without the byte-order mark when
\* it is the first line, without leading and trailing space and tab
WorkerTrim(ln, first) ==
    LET body == IF first /\ Len(ln) > 0 /\ ln[1] = "BOM" THEN Tail(ln) ELSE ln
    IN  extractTrimmed(body, 1, Len(body) + 1)

IsSkipped(t) == Len(t) = 0 \/ (Len(t) >= 2 /\ t[1] = "/" /\ t[2] = "/")
IsHeader(t) == Len(t) > 0 /\ t[1] = "[" /\ t[Len(t)] = "]"

\* A typed array (zero-filled at allocation) is its length and the elements up
\* to the highest index written; the elements above are 0.  Indices from 1.
TypedArray(n) == [length |-> n, elems |-> <<>>]
At(arr, i) == IF i <= Len(arr.elems) THEN arr.elems[i] ELSE 0
\* arr[i - 1] = v; a store outside the array has no effect
Put(arr, i, v) ==
    IF i > arr.length THEN arr
    ELSE IF i <= Len(arr.elems) THEN [arr EXCEPT !.elems[i] = v]
    ELSE [arr EXCEPT !.elems = @ \o Zeros(i - Len(@) - 1) \o <<v>>]
\* arr.slice(0, count)
SliceArray(arr, count) ==
    [k \in 1..(IF count < arr.length THEN count ELSE arr.length) |-> At(arr, k)]

\* GrowArray without the copy of the old elements (newStarts.set(...))
GrowArray_NoCopy(arr, count) ==
    IF count >= arr.length THEN [length |-> arr.length * 2, elems |-> <<>>] ELSE arr

\* if (hitCount >= array.length): a new array of twice the length that
\* receives the old elements
GrowArray(arr, count) ==
    IF count >= arr.length THEN [length |-> arr.length * 2, elems |-> arr.elems] ELSE arr

\* gap fill: the end of the previous object when the object obj is accepted
GapFill(ends, types, count, obj) ==
    IF count > 0 /\ BitSet(Num(At(types, count)), 1)
    THEN Put(ends, count, ToInt32(JsMax(Num(At(ends, count)), obj.start)))
    ELSE ends

\* case SECTIONS.HIT_OBJECTS of the switch
HitObjectsLine(t) ==
    LET object == parseHitObject(t, sliderMultiplier, timingPoints)
        filled == GapFill(hitEndsArray, hitTypesArray, hitCount, object.val)
    IN  IF object.some
        THEN /\ hitStartsArray' = Put(GrowArray(hitStartsArray, hitCount), hitCount + 1,
                                      ToInt32(object.val.start))
             /\ hitEndsArray' = Put(GrowArray(filled, hitCount), hitCount + 1,
                                    ToInt32(object.val.end))
             /\ hitTypesArray' = Put(GrowArray(hitTypesArray, hitCount), hitCount + 1,
                                     ToInt16(object.val.type))
             /\ hitCount' = hitCount + 1
        ELSE UNCHANGED <<hitStartsArray, hitEndsArray, hitTypesArray, hitCount>>

\* what one iteration of the line loop does with the line t between
\* lineStart and lineEnd
WorkerEffect(t) ==
    IF IsSkipped(t)
    THEN UNCHANGED <<section, sliderMultiplier, timingPoints, hitStartsArray,
                     hitEndsArray, hitTypesArray, hitCount, result>>
    ELSE IF IsHeader(t)
    THEN /\ section' = identifySection(t, 2, Len(t))
         /\ UNCHANGED <<sliderMultiplier, timingPoints, hitStartsArray,
                        hitEndsArray, hitTypesArray, hitCount, result>>
    ELSE /\ UNCHANGED section
         /\ result' =
              CASE section = SECTIONS.METADATA -> parseMetadataLine(t, result)
                [] section = SECTIONS.GENERAL -> parseGeneralLine(t, result)
                [] section = SECTIONS.EVENTS -> parseEventLine(t, result)
                [] section = SECTIONS.EDITOR -> parseEditorLine(t, result)
                [] OTHER -> result
         /\ sliderMultiplier' =
              IF section = SECTIONS.DIFFICULTY /\ parseSliderMultiplier(t).some
              THEN parseSliderMultiplier(t).val
              ELSE sliderMultiplier
         /\ timingPoints' =
              IF section = SECTIONS.TIMING_POINTS /\ parseTimingPoint(t).some
              THEN Append(timingPoints, parseTimingPoint(t).val)
              ELSE timingPoints
         /\ IF section = SECTIONS.HIT_OBJECTS
            THEN HitObjectsLine(t)
            ELSE UNCHANGED <<hitStartsArray, hitEndsArray, hitTypesArray, hitCount>>

\* one iteration of the line loop of parseOsuFile on the next line ln
WorkerLine(ln) ==
    /\ wpc = "parsing"
    /\ rline = Len(content)
    /\ content' = Append(content, ln)
    /\ WorkerEffect(WorkerTrim(ln, content = <<>>))
    /\ wpc' = wpc
    /\ UNCHANGED <<rendererVars, notParseVars>>

\* the end of the text: the arrays are trimmed to hitCount and returned
WorkerReturn ==
    /\ wpc = "parsing"
    /\ rline = Len(content)
    /\ wpc' = "done"
    /\ result' = [result EXCEPT !.hitStarts = SliceArray(hitStartsArray, hitCount),
                                !.hitEnds = SliceArray(hitEndsArray, hitCount)]
    /\ UNCHANGED <<content, section, sliderMultiplier, timingPoints, hitStartsArray,
                   hitEndsArray, hitTypesArray, hitCount>>
    /\ UNCHANGED <<rendererVars, notParseVars>>

(***************************************************************************)
(* parseHitObjects (renderer)                                              *)
(***************************************************************************)
\* trimmed.startsWith('[') && trimmed.endsWith(']')
RendererIsHeader(t) == Len(t) > 0 /\ t[1] = "[" /\ t[Len(t)] = "]"
RendererIsSkipped(t) == Len(t) = 0 \/ (Len(t) >= 2 /\ t[1] = "/" /\ t[2] = "/")

\* the branch of the difficulty section: the multiplier after the line
RendererMultiplier(t, sm) ==
    LET sep == indexOf(t, ":", 1)
    IN  IF sep # 0 /\ toLowerCase(trim(Slice(t, 1, sep))) = KEY_SLIDERMULTIPLIER
        THEN JsOr(parseFloat(Slice(t, sep + 1, Len(t) + 1)), Num(1))
        ELSE sm

\* the branch of the timing points section: the list after the line
RendererTimingPoints(t, tps) ==
    LET parts == split(t, ",")
    IN  IF Len(parts) >= 2
        THEN Append(tps, [time |-> parseInt(parts[1]),
                          beatLength |-> parseFloat(parts[2]),
                          uninherited |-> IF Len(parts) > 6 THEN parts[7] = <<"1">>
                                          ELSE TRUE])
        ELSE tps

\* "Fill gap if previous was a slider"
RendererGapFill(ends, types, time) ==
    IF Len(ends) > 0 /\ BitSet(types[Len(types)], 1)
    THEN [ends EXCEPT ![Len(ends)] = JsMax(ends[Len(ends)], time)]
    ELSE ends

\* the branch of the hit objects section
RendererHitObject(t) ==
    LET parts == split(t, ",")
        time == parseInt(parts[3])
        type == parseInt(parts[4])
        endTime == hitEndTime(parts, time, type, rSliderMultiplier,
                              getTiming(time, rTimingPoints))
    IN  IF Len(parts) < 4
        THEN UNCHANGED <<hitStarts, hitEnds, hitTypes>>
        ELSE /\ hitStarts' = Append(hitStarts, time)
             /\ hitEnds' = Append(RendererGapFill(hitEnds, hitTypes, time),
                                  JsMax(time, endTime))
             /\ hitTypes' = Append(hitTypes, type)

\* one iteration of the line loop of parseHitObjects
RendererLine ==
    /\ rpc = "parsing"
    /\ rline < Len(content)
    /\ rline' = rline + 1
    /\ LET t == trim(content[rline + 1])
       IN  IF RendererIsSkipped(t)
           THEN UNCHANGED <<rsection, inHitObjects, rSliderMultiplier, rTimingPoints,
                            hitStarts, hitEnds, hitTypes>>
           ELSE IF RendererIsHeader(t)
           THEN /\ rsection' = toLowerCase(Slice(t, 2, Len(t)))
                /\ inHitObjects' = (rsection' = NAME_HITOBJECTS)
                /\ UNCHANGED <<rSliderMultiplier, rTimingPoints, hitStarts, hitEnds,
                               hitTypes>>
           ELSE /\ UNCHANGED <<rsection, inHitObjects>>
                /\ IF rsection = NAME_DIFFICULTY
                   THEN /\ rSliderMultiplier' = RendererMultiplier(t, rSliderMultiplier)
                        /\ UNCHANGED <<rTimingPoints, hitStarts, hitEnds, hitTypes>>
                   ELSE IF rsection = NAME_TIMINGPOINTS
                   THEN /\ rTimingPoints' = RendererTimingPoints(t, rTimingPoints)
                        /\ UNCHANGED <<rSliderMultiplier, hitStarts, hitEnds, hitTypes>>
                   ELSE IF inHitObjects
                   THEN /\ RendererHitObject(t)
                        /\ UNCHANGED <<rSliderMultiplier, rTimingPoints>>
                   ELSE UNCHANGED <<rSliderMultiplier, rTimingPoints, hitStarts,
                                    hitEnds, hitTypes>>
    /\ UNCHANGED rpc
    /\ UNCHANGED <<workerVars, notParseVars>>

\* parseHitObjects returns { hitStarts, hitEnds } after the last line
RendererReturn ==
    /\ rpc = "parsing"
    /\ wpc = "done"
    /\ rline = Len(content)
    /\ rpc' = "done"
    /\ UNCHANGED <<rline, rsection, inHitObjects, rSliderMultiplier, rTimingPoints,
                   hitStarts, hitEnds, hitTypes>>
    /\ UNCHANGED <<workerVars, notParseVars>>

(***************************************************************************)
(* The file as a reader of the format sees it: what a line is, which       *)
(* section it lies in, and what has been declared before it.  Positions    *)
(* are line numbers of content, k = 0 is the start of the file.            *)
(***************************************************************************)
LineText(j) == WorkerTrim(content[j], j = 1)
Fields(j) == split(LineText(j), ",")
IsSliderLine(j) == BitSet(parseInt(Fields(j)[4]), 1)

\* what the first k lines of the file declare: the name (lower case) of the
\* section in force, the slider multiplier, the timing points in file order,
\* and the accepted hit-object lines with the object each one describes
RECURSIVE FileAt(_)
FileAt(k) ==
    IF k = 0
    THEN [name |-> <<>>, multiplier |-> Num(1), points |-> <<>>, accepted |-> <<>>]
    ELSE LET before == FileAt(k - 1)
             t == LineText(k)
         IN  IF IsSkipped(t) THEN before
             ELSE IF IsHeader(t)
             THEN [before EXCEPT !.name = toLowerCase(Slice(t, 2, Len(t)))]
             ELSE CASE before.name = NAME_DIFFICULTY /\ parseSliderMultiplier(t).some ->
                         [before EXCEPT !.multiplier = parseSliderMultiplier(t).val]
                    [] before.name = NAME_TIMINGPOINTS /\ parseTimingPoint(t).some ->
                         [before EXCEPT !.points = Append(@, parseTimingPoint(t).val)]
                    [] before.name = NAME_HITOBJECTS /\ Len(split(t, ",")) >= 4 ->
                         [before EXCEPT !.accepted =
                             Append(@, [line |-> k,
                                        object |-> parseHitObject(t, before.multiplier,
                                                                  before.points).val])]
                    [] OTHER -> before

SectionNameAt(k) == FileAt(k).name
MultiplierAt(k) == FileAt(k).multiplier
TimingPointsAt(k) == FileAt(k).points
AcceptedLines(k) == FileAt(k).accepted

(***************************************************************************)
(* The two parsers read the same file.  They share no state, so that one   *)
(* schedule stands for all: parseHitObjects reads a line as soon as        *)
(* parseOsuFile has read it.                                               *)
(***************************************************************************)
\* an upper bound of the length in characters of a modelled file
MaxContentLength == 5119

InitParse ==
    /\ content = <<>>
    /\ wpc = "parsing"
    /\ section = SECTIONS.NONE
    /\ sliderMultiplier = Num(1)
    /\ timingPoints = <<>>
    /\ hitStartsArray = TypedArray(InitialCapacity(MaxContentLength))
    /\ hitEndsArray = TypedArray(InitialCapacity(MaxContentLength))
    /\ hitTypesArray = TypedArray(InitialCapacity(MaxContentLength))
    /\ hitCount = 0
    /\ result = EmptyResult
    /\ rline = 0
    /\ rpc = "parsing"
    /\ rsection = <<>>
    /\ inHitObjects = FALSE
    /\ rSliderMultiplier = Num(1)
    /\ rTimingPoints = <<>>
    /\ hitStarts = <<>>
    /\ hitEnds = <<>>
    /\ hitTypes = <<>>

(***************************************************************************)
(* A call of the timing resolver, one loop iteration per step              *)
(***************************************************************************)
\* longest list of timing points given to a resolver call
MaxPoints == 3

TP(t, b, u) == [time |-> t, beatLength |-> b, uninherited |-> u]
\* timing points of the calls: uninherited and inherited ones, with beat
\* lengths that are positive, zero, negative or NaN, and a time that is NaN
Points ==
    { TP(Num(0), Num(500), TRUE), TP(Num(2000), Num(300), TRUE),
      TP(Num(1000), Num(-50), FALSE), TP(Num(500), Num(-200), FALSE),
      TP(Num(1000), Num(100), FALSE), TP(Num(1500), Num(0), FALSE),
      TP(Num(1000), NaN, FALSE), TP(NaN, Num(400), TRUE),
      TP(Num(0), Num(0), TRUE), TP(Num(0), Num(-200), TRUE), TP(Num(0), NaN, TRUE) }
QueryTimes == {Num(0), Num(1500), NaN}

RECURSIVE SeqsUpTo(_, _)
\* the sequences of at most n elements of S
SeqsUpTo(S, n) ==
    IF n = 0 THEN {<<>>}
    ELSE LET shorter == SeqsUpTo(S, n - 1)
         IN  shorter \cup {Append(q, x) : q \in {r \in shorter : Len(r) = n - 1}, x \in S}

\* the locals of a resolver before its loop
ScanStart == [i |-> 1, activeBPM |-> TimingStart.beatLength,
              activeSV |-> TimingStart.sv, done |-> FALSE]
\* no call is in progress
ScanIdle == [ScanStart EXCEPT !.done = TRUE]

\* the loop of getTimingInfo takes the point at position i
GetTimingInfoPoint ==
    /\ ~gtiScan.done
    /\ gtiScan.i <= Len(qpoints)
    /\ ~TimingBreak(qpoints[gtiScan.i], qtime)
    /\ LET st == getTimingInfoBody(qpoints[gtiScan.i],
                                   [beatLength |-> gtiScan.activeBPM, sv |-> gtiScan.activeSV])
       IN  gtiScan' = [gtiScan EXCEPT !.i = @ + 1, !.activeBPM = st.beatLength,
                                      !.activeSV = st.sv]
    /\ UNCHANGED <<qtime, qpoints, gtScan, notTimingVars>>

\* the loop of getTimingInfo ends (end of the list, or break) and it returns
GetTimingInfoReturn ==
    /\ ~gtiScan.done
    /\ IF gtiScan.i > Len(qpoints) THEN TRUE ELSE TimingBreak(qpoints[gtiScan.i], qtime)
    /\ gtiScan' = [gtiScan EXCEPT !.done = TRUE]
    /\ UNCHANGED <<qtime, qpoints, gtScan, notTimingVars>>

\* the loop of getTiming takes the point at position i
GetTimingPoint ==
    /\ ~gtScan.done
    /\ gtScan.i <= Len(qpoints)
    /\ ~TimingBreak(qpoints[gtScan.i], qtime)
    /\ LET st == getTimingBody(qpoints[gtScan.i],
                               [beatLength |-> gtScan.activeBPM, sv |-> gtScan.activeSV])
       IN  gtScan' = [gtScan EXCEPT !.i = @ + 1, !.activeBPM = st.beatLength,
                                    !.activeSV = st.sv]
    /\ UNCHANGED <<qtime, qpoints, gtiScan, notTimingVars>>

\* the loop of getTiming ends and it returns
GetTimingReturn ==
    /\ ~gtScan.done
    /\ IF gtScan.i > Len(qpoints) THEN TRUE ELSE TimingBreak(qpoints[gtScan.i], qtime)
    /\ gtScan' = [gtScan EXCEPT !.done = TRUE]
    /\ UNCHANGED <<qtime, qpoints, gtiScan, notTimingVars>>

(***************************************************************************)
(* Highlight range builders                                                *)
(***************************************************************************)
\* const bins = 120 of buildHighlightRanges
HighlightBins == 120
\* const bins = 200 of buildBookmarkRanges
BookmarkBins == 200

Range(s, e, t) == [start |-> s, end |-> e, type |-> t]

\* Math.min(bins - 1, Math.floor((time / durationMs) * bins))
BinIndex(time, duration, bins) ==
    JsMin(Num(bins - 1), JsFloor(JsMul(JsDiv(time, duration), Num(bins))))

\* the bins filled with end in place of Math.max(start, end)
ObjectBins_NoMax(start, end, maxTime) ==
    IF JsLt(start, Num(0)) \/ JsGt(start, maxTime) THEN {}
    ELSE LET startIdx == BinIndex(start, maxTime, HighlightBins)
             endIdx == BinIndex(end, maxTime, HighlightBins)
         IN  {j \in 0..(HighlightBins - 1) : JsLe(startIdx, Num(j)) /\ JsLe(Num(j), endIdx)}

\* one iteration of the first loop of buildHighlightRanges: the bins it sets
ObjectBins(start, end, maxTime) ==
    IF JsLt(start, Num(0)) \/ JsGt(start, maxTime) THEN {}
    ELSE LET startIdx == BinIndex(start, maxTime, HighlightBins)
             endIdx == BinIndex(JsMax(start, end), maxTime, HighlightBins)
         IN  {j \in 0..(HighlightBins - 1) : JsLe(startIdx, Num(j)) /\ JsLe(Num(j), endIdx)}

RECURSIVE HighlightFlags(_, _, _, _)
\* flags (the set of the bins that are true) after the first i iterations
HighlightFlags(starts, ends, maxTime, i) ==
    IF i = 0 THEN {}
    ELSE LET start == starts[i]
             end == IF Len(ends) >= i THEN ends[i] ELSE start
         IN  HighlightFlags(starts, ends, maxTime, i - 1) \cup ObjectBins(start, end, maxTime)

\* the body of the second loop of buildHighlightRanges for bin i, on its
\* locals start and ranges
HighlightStep(flags, i, st) ==
    IF i \in flags
    THEN IF st.start.some THEN st ELSE [start |-> Some(i), ranges |-> st.ranges]
    ELSE IF st.start.some
         THEN [start |-> Null,
               ranges |-> Append(st.ranges, Range(Rat(st.start.val, HighlightBins),
                                                  Rat(i, HighlightBins), "object"))]
         ELSE st

RECURSIVE HighlightScan(_, _, _)
\* the second loop of buildHighlightRanges from bin i on, from the locals st.
\* An iteration changes the locals only at a bin whose flag differs from
\* "a run is open"; the iterations before the next such bin are skipped.
HighlightScan(flags, i, st) ==
    LET Changes(j) == (j \in flags) # st.start.some
    IN  IF \E j \in i..(HighlightBins - 1) : Changes(j)
        THEN LET next == CHOOSE j \in i..(HighlightBins - 1) :
                             Changes(j) /\ \A k \in i..(j - 1) : ~Changes(k)
             IN  HighlightScan(flags, next + 1, HighlightStep(flags, next, st))
        ELSE st

buildHighlightRanges(starts, ends, duration) ==
    IF Len(starts) = 0 \/ JsFalsy(duration) THEN <<>>
    ELSE LET scan == HighlightScan(HighlightFlags(starts, ends, duration, Len(starts)),
                                   0, [start |-> Null, ranges |-> <<>>])
         IN  IF scan.start.some
             THEN Append(scan.ranges,
                         Range(Rat(scan.start.val, HighlightBins), Num(1), "object"))
             ELSE scan.ranges

\* Math.min(Math.max(x, 0), 1)
Clamp01(x) == JsMin(JsMax(x, Num(0)), Num(1))

buildBreakRanges(breaks, duration) ==
    IF Len(breaks) = 0 \/ JsFalsy(duration) THEN <<>>
    ELSE LET mapped == [i \in 1..Len(breaks) |->
                          Range(Clamp01(JsDiv(breaks[i].start, duration)),
                                Clamp01(JsDiv(breaks[i].end, duration)), "break")]
             Keep(range) == JsGt(range.end, range.start)
         IN  SelectSeq(mapped, Keep)

\* flags of buildBookmarkRanges after its forEach
BookmarkFlags(times, duration) ==
    {j \in 0..(BookmarkBins - 1) :
        \E i \in 1..Len(times) :
            LET idx == BinIndex(times[i], duration, BookmarkBins)
            IN  JsGe(idx, Num(0)) /\ idx = Num(j)}

RECURSIVE BookmarkScan(_)
\* the loop of buildBookmarkRanges: one range for each bin that is set, in
\* ascending order of the bins
BookmarkScan(flags) ==
    IF flags = {} THEN <<>>
    ELSE LET i == CHOOSE x \in flags : \A y \in flags : y <= x
         IN  Append(BookmarkScan(flags \ {i}),
                    Range(Rat(i, BookmarkBins),
                          JsDiv(JsAdd(Num(i), Rat(12, 10)), Num(BookmarkBins)),
                          "bookmark"))

buildBookmarkRanges(times, duration) ==
    IF Len(times) = 0 \/ JsFalsy(duration) THEN <<>>
    ELSE BookmarkScan(BookmarkFlags(times, duration))

(***************************************************************************)
(* computeProgress                                                         *)
(***************************************************************************)
\* the type of a range that has none (!r.type)
NoType == ""

RECURSIVE SumLengths(_, _)
\* reduce((sum, r) => sum + (r.end - r.start), 0) over the first k ranges
SumLengths(ranges, k) ==
    IF k = 0 THEN Num(0)
    ELSE JsAdd(SumLengths(ranges, k - 1), JsSub(ranges[k].end, ranges[k].start))

RECURSIVE MinStart(_, _)
\* Math.min(...ranges.map(r => r.start)) over the first k ranges, k > 0
MinStart(ranges, k) ==
    IF k = 1 THEN ranges[1].start
    ELSE JsMin(MinStart(ranges, k - 1), ranges[k].start)

\* computeProgress that counts every range that is not a break as an object
computeProgress_CountBookmarks(ranges, ignoreStartAndBreaks) ==
    IF Len(ranges) = 0 THEN Num(0)
    ELSE LET IsBreak(r) == r.type = "break"
             IsObject(r) == r.type # "break"
             objs == SelectSeq(ranges, IsObject)
             brks == SelectSeq(ranges, IsBreak)
             populated == SumLengths(objs, Len(objs))
         IN  IF ignoreStartAndBreaks
             THEN LET firstStart == IF Len(objs) > 0 THEN MinStart(objs, Len(objs))
                                    ELSE Num(0)
                      breakSum == SumLengths(brks, Len(brks))
                      total == JsMax(Rat(1, 1000), JsSub(Num(1), firstStart))
                  IN  JsMin(Num(1), JsDiv(JsAdd(populated, breakSum), total))
             ELSE JsMin(Num(1), populated)

\* computeProgress(ranges), with the setting it reads as a parameter
computeProgress(ranges, ignoreStartAndBreaks) ==
    IF Len(ranges) = 0 THEN Num(0)
    ELSE LET IsBreak(r) == r.type = "break"
             IsObject(r) == r.type = "object" \/ r.type = NoType
             objs == SelectSeq(ranges, IsObject)
             brks == SelectSeq(ranges, IsBreak)
             populated == SumLengths(objs, Len(objs))
         IN  IF ignoreStartAndBreaks
             THEN LET firstStart == IF Len(objs) > 0 THEN MinStart(objs, Len(objs))
                                    ELSE Num(0)
                      breakSum == SumLengths(brks, Len(brks))
                      total == JsMax(Rat(1, 1000), JsSub(Num(1), firstStart))
                  IN  JsMin(Num(1), JsDiv(JsAdd(populated, breakSum), total))
             ELSE JsMin(Num(1), populated)

(***************************************************************************)
(* Results of parseOsuFile given to the builders                           *)
(***************************************************************************)
\* durations: positive, and negative (the fallback duration of a file whose
\* times are all far below zero)
Durations == {Num(1200), Num(-1200)}
\* <<start, end>> of hit objects: inside the duration, end before start,
\* start below zero, start at the duration, start beyond the duration
ObjectIntervals ==
    { <<0, 599>>, <<240, 359>>, <<600, 100>>, <<-10, 50>>, <<1200, 5000>>,
      <<1300, 1400>> }
Break(s, e) == [start |-> Num(s), end |-> Num(e)]
\* lists of break periods of a parseOsuFile result (it checks no order)
BreakLists ==
    { <<>>, <<Break(120, 240)>>, <<Break(-1, -1)>>,
      <<Break(1000, 2000), Break(300, 200)>> }
\* lists of bookmarks: at zero, inside, in adjacent bins, beyond the duration,
\* below zero
BookmarkLists ==
    { <<>>, <<Num(0)>>, <<Num(600), Num(606)>>, <<Num(600), Num(1500)>>, <<Num(-5)>> }

(***************************************************************************)
(* processWorkerResult: the three builders, then highlights and progress   *)
(***************************************************************************)
\* buildHighlightRanges(hitStarts || [], hitEnds || [], totalDuration)
BuildHighlightRanges ==
    /\ bpc = "object"
    /\ objectRanges' = buildHighlightRanges(objectStarts, objectEnds, durationMs)
    /\ bpc' = "break"
    /\ UNCHANGED <<durationMs, objectStarts, objectEnds, breakPeriods, bookmarks,
                   breakRanges, bookmarkRanges>>
    /\ UNCHANGED <<parseVars, timingVars, progressVars, otherVars>>

\* buildBreakRanges(breakPeriods || [], totalDuration), for the break
\* periods of the result
BuildBreakRanges ==
    /\ bpc = "break"
    /\ \E breaks \in BreakLists :
          /\ breakPeriods' = breaks
          /\ breakRanges' = buildBreakRanges(breaks, durationMs)
    /\ bpc' = "bookmark"
    /\ UNCHANGED <<durationMs, objectStarts, objectEnds, bookmarks,
                   objectRanges, bookmarkRanges>>
    /\ UNCHANGED <<parseVars, timingVars, progressVars, otherVars>>

\* buildBookmarkRanges(bookmarks || [], totalDuration), for the bookmarks of
\* the result
BuildBookmarkRanges ==
    /\ bpc = "bookmark"
    /\ \E times \in BookmarkLists :
          /\ bookmarks' = times
          /\ bookmarkRanges' = buildBookmarkRanges(times, durationMs)
    /\ bpc' = "item"
    /\ UNCHANGED <<durationMs, objectStarts, objectEnds, breakPeriods,
                   objectRanges, breakRanges>>
    /\ UNCHANGED <<parseVars, timingVars, progressVars, otherVars>>

\* highlights = [...breakRanges, ...objectRanges, ...bookmarkRanges] and the
\* item's progress: computeProgress(highlights)
BuildItem ==
    /\ bpc = "item"
    /\ highlights' = breakRanges \o objectRanges \o bookmarkRanges
    /\ progress' = computeProgress(highlights', settings.ignoreStartAndBreaks)
    /\ bpc' = "idle"
    /\ UNCHANGED <<durationMs, objectStarts, objectEnds, breakPeriods, bookmarks,
                   objectRanges, breakRanges, bookmarkRanges>>
    /\ UNCHANGED <<parseVars, timingVars, settings, ppc, otherVars>>

(***************************************************************************)
(* An item loaded from the cache, and the ignoreStartAndBreaks toggle      *)
(***************************************************************************)
\* computeProgress(item.highlights) on the loaded item
ComputeProgress ==
    /\ ppc = "call"
    /\ progress' = computeProgress(highlights, settings.ignoreStartAndBreaks)
    /\ ppc' = "idle"
    /\ UNCHANGED <<settings, highlights>>
    /\ UNCHANGED <<parseVars, timingVars, rangeVars, otherVars>>

\* the change handler of the #ignoreStartAndBreaks checkbox
ToggleIgnoreStartAndBreaks ==
    /\ ppc = "idle"
    /\ settings' = [settings EXCEPT !.ignoreStartAndBreaks = ~@]
    /\ progress' = computeProgress(highlights, settings'.ignoreStartAndBreaks)
    /\ UNCHANGED <<highlights, ppc>>
    /\ UNCHANGED <<parseVars, timingVars, rangeVars, otherVars>>

\* let settings = {..., ignoreStartAndBreaks: false, ...}
DefaultSettings == [ignoreStartAndBreaks |-> FALSE]

InitRangesIdle ==
    /\ durationMs = Num(0)
    /\ objectStarts = <<>>
    /\ objectEnds = <<>>
    /\ breakPeriods = <<>>
    /\ bookmarks = <<>>
    /\ objectRanges = <<>>
    /\ breakRanges = <<>>
    /\ bookmarkRanges = <<>>
    /\ bpc = "idle"

InitProgressIdle ==
    /\ settings = DefaultSettings
    /\ highlights = <<>>
    /\ progress = Num(0)
    /\ ppc = "idle"

(***************************************************************************)
(* parseBreakPeriods (renderer)                                            *)
(***************************************************************************)
EVENTS_HEADER == <<"[", "E", "v", "e", "n", "t", "s", "]">>
BREAK_TOKEN == <<"b", "r", "e", "a", "k">>

\* the body of the loop of parseBreakPeriods for one line: st is
\* [inEvents, breaks]
parseBreakLine(line, st) ==
    LET trimmed == trim(line)
        raw == split(trimmed, ",")
        parts == [k \in 1..Len(raw) |-> trim(raw[k])]
        startTime == parseInt(parts[2])
        endTime == parseInt(parts[3])
    IN  IF Len(trimmed) = 0 THEN st
        ELSE IF RendererIsHeader(trimmed)
        THEN [st EXCEPT !.inEvents = (trimmed = EVENTS_HEADER)]
        ELSE IF ~st.inEvents \/ (Len(trimmed) > 1 /\ trimmed[1] = "/" /\ trimmed[2] = "/")
        THEN st
        ELSE IF Len(parts) < 3 THEN st
        ELSE IF parts[1] # <<"2">> /\ toLowerCase(parts[1]) # BREAK_TOKEN THEN st
        ELSE IF ~IsNaN(startTime) /\ ~IsNaN(endTime) /\ JsGt(endTime, startTime)
        THEN [st EXCEPT !.breaks = Append(@, [start |-> startTime, end |-> endTime])]
        ELSE st

RECURSIVE parseBreakPeriodsFrom(_, _)
parseBreakPeriodsFrom(lines, k) ==
    IF k = 0 THEN [inEvents |-> FALSE, breaks |-> <<>>]
    ELSE parseBreakLine(lines[k], parseBreakPeriodsFrom(lines, k - 1))

\* parseBreakPeriods(content)
parseBreakPeriods(lines) == parseBreakPeriodsFrom(lines, Len(lines)).breaks

\* the renderer parses the break periods of the content it has read
ParseBreakPeriods ==
    /\ rpc = "done"
    /\ bpc = "idle"
    /\ breakPeriods' = parseBreakPeriods(content)
    /\ bpc' = "parsed"
    /\ UNCHANGED <<durationMs, objectStarts, objectEnds, bookmarks, objectRanges,
                   breakRanges, bookmarkRanges>>
    /\ UNCHANGED <<parseVars, timingVars, progressVars, otherVars>>

(***************************************************************************)
(* Saved items: serializeHighlights and deserializeHighlights              *)
(***************************************************************************)
\* the last four digits of 10000 + k, for 0 <= k < 10000
Pad4(k) == Tail(Decimal(10000 + k))

\* toFixed(4) that cuts the digits after the fourth
toFixed4_Truncate(x) ==
    IF x.nan THEN <<"N", "a", "N">>
    ELSE LET mag == Abs(x.n)
             n == (mag * 10000) \div x.d
         IN  (IF x.n < 0 THEN <<"-">> ELSE <<>>)
             \o Decimal(n \div 10000) \o <<".">> \o Pad4(n % 10000)

\* x.toFixed(4): the digits of the integer n for which n / 10^4 - |x| is
\* closest to zero (the larger n of two), with the sign of x
toFixed4(x) ==
    IF x.nan THEN <<"N", "a", "N">>
    ELSE LET mag == Abs(x.n)
             n == (2 * mag * 10000 + x.d) \div (2 * x.d)
         IN  (IF x.n < 0 THEN <<"-">> ELSE <<>>)
             \o Decimal(n \div 10000) \o <<".">> \o Pad4(n % 10000)

\* Number(s) for the text that toFixed returns
JsNumber(s) == parseFloat(s)

serializeHighlights(ranges) ==
    [i \in 1..Len(ranges) |->
        <<JsNumber(toFixed4(ranges[i].start)), JsNumber(toFixed4(ranges[i].end)),
          IF ranges[i].type = "break" THEN "b"
          ELSE IF ranges[i].type = "bookmark" THEN "k" ELSE "o">>]

deserializeHighlights(ranges) ==
    [i \in 1..Len(ranges) |->
        Range(ranges[i][1], ranges[i][2],
              IF ranges[i][3] = "b" THEN "break"
              ELSE IF ranges[i][3] = "k" THEN "bookmark" ELSE "object")]

\* saveToStorage: the highlights of the item in the payload
SaveToStorage ==
    /\ spc \in {"new", "loaded"}
    /\ storedHighlights' = serializeHighlights(highlights)
    /\ spc' = "saved"
    /\ UNCHANGED <<parseVars, timingVars, rangeVars, progressVars, libraryVars, scanVars, listVars>>

\* buildItemFromCache: the highlights of the item built from the payload
BuildItemFromCache ==
    /\ spc = "saved"
    /\ highlights' = deserializeHighlights(storedHighlights)
    /\ spc' = "loaded"
    /\ UNCHANGED <<storedHighlights, settings, progress, ppc>>
    /\ UNCHANGED <<parseVars, timingVars, rangeVars, libraryVars, scanVars,
                   listVars>>

InitStorageIdle ==
    /\ storedHighlights = <<>>
    /\ spc = "new"

InitTimingIdle ==
    /\ qtime = Num(0)
    /\ qpoints = <<>>
    /\ gtiScan = ScanIdle
    /\ gtScan = ScanIdle

vars == <<parseVars, timingVars, rangeVars, progressVars, otherVars>>

(***************************************************************************)
(* The list of items: processWorkerResult, the audio queue, playing, saving *)
(***************************************************************************)
\* the files of the scanned directory
Paths == {"s/a.osu", "s/b.osu"}

\* The parse result of a file in its version v (the fields of the entry that
\* processFiles posts): a.osu has objects, a break and bookmarks, and in
\* version 2 one more object; b.osu has nothing but its metadata.
FileData(path, v) ==
    IF path = "s/a.osu"
    THEN [audio |-> "a.mp3",
          hitStarts |-> IF v = 1 THEN <<Num(0), Num(240)>>
                        ELSE <<Num(0), Num(240), Num(900)>>,
          hitEnds |-> IF v = 1 THEN <<Num(599), Num(359)>>
                      ELSE <<Num(599), Num(359), Num(900)>>,
          breakPeriods |-> <<Break(600, 800)>>,
          bookmarks |-> <<Num(606)>>]
    ELSE [audio |-> "b.mp3", hitStarts |-> <<>>, hitEnds |-> <<>>,
          breakPeriods |-> <<>>, bookmarks |-> <<>>]

\* what decoding the audio file of an item can give: no duration (the file
\* is missing or does not decode) or its length in ms
MeasuredDurations == {Null, Some(Num(1200))}

RECURSIVE MaxOf(_, _)
\* Math.max(...list) of a list that is not empty
MaxOf(list, k) ==
    IF k = 1 THEN list[1] ELSE JsMax(MaxOf(list, k - 1), list[k])

\* a hash of the path; the paths of the model have different hashes
createItemId(seed) == <<"id-", seed>>

\* the fallback duration with 1000 added to a largest time of 0 as well
fallbackDuration_AlwaysAdd(file) ==
    LET maxObjectTime == IF Len(file.hitEnds) > 0
                         THEN MaxOf(file.hitEnds, Len(file.hitEnds)) ELSE Num(0)
        ends == [i \in 1..Len(file.breakPeriods) |-> file.breakPeriods[i].end]
        maxBreakTime == IF Len(ends) > 0 THEN MaxOf(ends, Len(ends)) ELSE Num(0)
        maxBookmarkTime == IF Len(file.bookmarks) > 0
                           THEN MaxOf(file.bookmarks, Len(file.bookmarks)) ELSE Num(0)
    IN  JsAdd(JsMax(JsMax(maxObjectTime, maxBreakTime), maxBookmarkTime), Num(1000))

\* the duration that stands in while the audio is not measured
fallbackDuration(file) ==
    LET maxObjectTime == IF Len(file.hitEnds) > 0
                         THEN MaxOf(file.hitEnds, Len(file.hitEnds)) ELSE Num(0)
        ends == [i \in 1..Len(file.breakPeriods) |-> file.breakPeriods[i].end]
        maxBreakTime == IF Len(ends) > 0 THEN MaxOf(ends, Len(ends)) ELSE Num(0)
        maxBookmarkTime == IF Len(file.bookmarks) > 0
                           THEN MaxOf(file.bookmarks, Len(file.bookmarks)) ELSE Num(0)
        top == JsMax(JsMax(maxObjectTime, maxBreakTime), maxBookmarkTime)
    IN  IF JsFalsy(top) THEN Num(0) ELSE JsAdd(top, Num(1000))

\* [...breakRanges, ...objectRanges, ...bookmarkRanges] for one duration
buildHighlights(file, duration) ==
    buildBreakRanges(file.breakPeriods, duration)
        \o buildHighlightRanges(file.hitStarts, file.hitEnds, duration)
        \o buildBookmarkRanges(file.bookmarks, duration)

\* processWorkerResult(file, existing): an entry of a scan result is
\* [filePath, mtimeMs, unchanged, data], data being Null in an entry marked
\* unchanged (it has no metadata and no arrays); existing is Null or an item.
\* The result is Null when the function throws (metadata.background of an
\* entry without metadata), else the item and whether it was queued for
\* audio analysis.
processWorkerResult(file, existing, ignoreStartAndBreaks) ==
    IF ~file.data.some THEN Null
    ELSE LET data == file.data.val
             fallback == fallbackDuration(data)
             duration == IF existing.some /\ existing.val.audio = data.audio
                         THEN existing.val.durationMs ELSE Null
             falsy == ~duration.some \/ JsFalsy(duration.val)
             totalDuration == IF falsy THEN fallback ELSE duration.val
             ranges == IF JsFalsy(totalDuration) THEN <<>>
                       ELSE buildHighlights(data, totalDuration)
         IN  Some([item |-> [audio |-> data.audio,
                             durationMs |-> duration,
                             highlights |-> ranges,
                             progress |-> computeProgress(ranges, ignoreStartAndBreaks),
                             dateModified |-> file.mtimeMs,
                             id |-> IF existing.some THEN existing.val.id
                                    ELSE createItemId(file.filePath),
                             filePath |-> file.filePath],
                   schedule |-> falsy /\ data.audio # ""])

\* processWorkerResult on an entry with the lists at hand, for a file that
\* has no item yet: the highlights and the progress of the item
BuildItemFromResult ==
    /\ bpc = "item"
    /\ LET file == [filePath |-> "s/a.osu", mtimeMs |-> 1, unchanged |-> FALSE,
                    data |-> Some([audio |-> "a.mp3", hitStarts |-> objectStarts,
                                   hitEnds |-> objectEnds,
                                   breakPeriods |-> breakPeriods,
                                   bookmarks |-> bookmarks])]
           made == processWorkerResult(file, Null, settings.ignoreStartAndBreaks)
       IN  /\ highlights' = made.val.item.highlights
           /\ progress' = made.val.item.progress
    /\ bpc' = "idle"
    /\ UNCHANGED <<durationMs, objectStarts, objectEnds, breakPeriods, bookmarks,
                   objectRanges, breakRanges, bookmarkRanges>>
    /\ UNCHANGED <<parseVars, timingVars, settings, ppc, otherVars>>

\* totalDuration of processWorkerResult: the duration of the existing item,
\* or the fallback duration of the lists when that one is null or 0
totalDuration(existingDuration, file) ==
    IF JsFalsy(existingDuration) THEN fallbackDuration(file) ELSE existingDuration

\* the lists of the result at hand, as processWorkerResult receives them
FileAtHand ==
    [hitStarts |-> objectStarts, hitEnds |-> objectEnds,
     breakPeriods |-> breakPeriods, bookmarks |-> bookmarks]

\* if (totalDuration) { the three builders on the lists of the result }
BuildRangesOfResult ==
    /\ bpc = "file"
    /\ LET total == totalDuration(durationMs, FileAtHand)
       IN  IF JsFalsy(total)
           THEN objectRanges' = <<>> /\ breakRanges' = <<>> /\ bookmarkRanges' = <<>>
           ELSE /\ objectRanges' = buildHighlightRanges(objectStarts, objectEnds, total)
                /\ breakRanges' = buildBreakRanges(breakPeriods, total)
                /\ bookmarkRanges' = buildBookmarkRanges(bookmarks, total)
    /\ bpc' = "item"
    /\ UNCHANGED <<durationMs, objectStarts, objectEnds, breakPeriods, bookmarks>>
    /\ UNCHANGED <<parseVars, timingVars, progressVars, otherVars>>


notLibraryVars ==
    <<parseVars, timingVars, rangeVars, progressVars, storageVars, scanVars, listVars>>

\* most item objects created in one run
MaxItemObjects == 4
\* the versions a file goes through
MaxVersion == 2

RECURSIVE FindFrom(_, _, _, _)
\* items.find(i => i.id === id) from position k on: Null or a reference
FindFrom(h, items, id, k) ==
    IF k > Len(items) THEN Null
    ELSE IF h[items[k]].id = id THEN Some(items[k])
    ELSE FindFrom(h, items, id, k + 1)
Find(h, items, id) == FindFrom(h, items, id, 1)

\* scheduleAudioAnalysis(itemId) on the queue
scheduleAudioAnalysis(queue, id) ==
    IF \E k \in 1..Len(queue) : queue[k] = id THEN queue ELSE Append(queue, id)

RECURSIVE Dedupe(_)
\* Array.from(new Set(list))
Dedupe(list) ==
    IF Len(list) = 0 THEN <<>>
    ELSE LET front == Dedupe(SubSeq(list, 1, Len(list) - 1))
         IN  scheduleAudioAnalysis(front, list[Len(list)])

RECURSIVE AudioLoop(_, _, _)
\* the while loop of processAudioQueue up to its next await: the queue,
\* isAnalyzingAudio and the position of the task after it
AudioLoop(h, items, queue) ==
    IF Len(queue) = 0
    THEN [queue |-> queue, analyzing |-> FALSE, task |-> [pc |-> "idle"]]
    ELSE LET found == Find(h, items, queue[1])
         IN  IF ~found.some
             THEN [queue |-> queue, analyzing |-> FALSE, task |-> [pc |-> "idle"]]
             ELSE IF ~h[found.val].durationMs.some /\ h[found.val].audio # ""
             THEN [queue |-> Tail(queue), analyzing |-> TRUE,
                   task |-> [pc |-> "measure", item |-> found.val]]
             ELSE AudioLoop(h, items, Tail(queue))

RECURSIVE IdsToItems(_, _, _, _)
\* ids.map(id => items.find(i => i.id === id)).filter(Boolean), up to the
\* k-th id
IdsToItems(h, items, ids, k) ==
    IF k = 0 THEN <<>>
    ELSE LET found == Find(h, items, ids[k])
         IN  IdsToItems(h, items, ids, k - 1)
                 \o (IF found.some THEN <<found.val>> ELSE <<>>)

\* the items of a tab: the pinned ones in the order of todoIds, the done
\* ones in the order of doneIds, or all of them (the model has no guest
\* difficulties)
ItemsOfTab(h, items, tab) ==
    IF tab = "todo" THEN IdsToItems(h, items, todoIds, Len(todoIds))
    ELSE IF tab = "completed" THEN IdsToItems(h, items, doneIds, Len(doneIds))
    ELSE items

\* getAudioAnalysisScope()
getAudioAnalysisScope(h, items) == ItemsOfTab(h, items, viewMode)

\* processAudioQueue() up to its first await
processAudioQueue(h, items, queue, analyzing, task) ==
    LET IsPending(o) == h[o].audio # "" /\ ~h[o].durationMs.some
        pending == SelectSeq(getAudioAnalysisScope(h, items), IsPending)
        built == Dedupe([k \in 1..Len(pending) |-> h[pending[k]].id])
    IN  IF analyzing THEN [queue |-> queue, analyzing |-> analyzing, task |-> task]
        ELSE IF Len(built) = 0
        THEN [queue |-> built, analyzing |-> analyzing, task |-> task]
        ELSE AudioLoop(h, items, built)

\* what the list shows of an item
View(item) ==
    [id |-> item.id, filePath |-> item.filePath, durationMs |-> item.durationMs,
     highlights |-> item.highlights, progress |-> item.progress]

\* updateListItemElement(itemId) on the shown list
updateListItemElement(shown, h, items, id) ==
    LET found == Find(h, items, id)
    IN  [k \in 1..Len(shown) |->
            IF shown[k].id = id /\ found.some THEN View(h[found.val]) ELSE shown[k]]

\* renderFromState(): the items of the tab shown
renderFromState(h, items) ==
    [k \in 1..Len(ItemsOfTab(h, items, viewMode)) |->
        View(h[ItemsOfTab(h, items, viewMode)[k]])]

\* a tab button is clicked
TabClicked(tab) ==
    /\ tab # viewMode
    /\ viewMode' = tab
    /\ rendered' = [k \in 1..Len(ItemsOfTab(heap, beatmapItems, tab)) |->
                       View(heap[ItemsOfTab(heap, beatmapItems, tab)[k]])]
    /\ UNCHANGED <<disk, heap, beatmapItems, audioAnalysisQueue, isAnalyzingAudio,
                   audioTask, playTask, saveTimer, savedItems, refreshTask>>
    /\ UNCHANGED <<parseVars, timingVars, rangeVars, progressVars, storageVars,
                   scanVars, todoIds, doneIds>>

\* the items of the payload of saveToStorage
SavedPayload(h, items) ==
    [k \in 1..Len(items) |->
        [id |-> h[items[k]].id, filePath |-> h[items[k]].filePath,
         audio |-> h[items[k]].audio,
         dateModified |-> h[items[k]].dateModified,
         durationMs |-> h[items[k]].durationMs,
         highlights |-> serializeHighlights(h[items[k]].highlights),
         progress |-> h[items[k]].progress]]

\* the timer of scheduleSave fires: saveToStorage()
SaveTimerFires ==
    /\ saveTimer
    /\ saveTimer' = FALSE
    /\ savedItems' = SavedPayload(heap, beatmapItems)
    /\ UNCHANGED <<disk, heap, beatmapItems, audioAnalysisQueue, isAnalyzingAudio,
                   audioTask, playTask, rendered, refreshTask, notLibraryVars>>

\* processAudioQueue: getAudioDurationMs(audioPath) returns
AudioMeasured ==
    /\ audioTask.pc = "measure"
    /\ \E duration \in MeasuredDurations :
          IF duration.some /\ ~JsFalsy(duration.val)
          THEN /\ heap' = [heap EXCEPT ![audioTask.item].durationMs = duration]
               /\ audioTask' = [pc |-> "read", item |-> audioTask.item,
                                duration |-> duration.val]
          ELSE /\ audioTask' = [pc |-> "yield"]
               /\ UNCHANGED heap
    /\ UNCHANGED <<disk, beatmapItems, audioAnalysisQueue, isAnalyzingAudio, playTask,
                   saveTimer, savedItems, rendered, refreshTask, notLibraryVars>>

\* processAudioQueue: readOsuFile(item.filePath) returns the file, and the
\* highlights are built again; or it fails, and the catch logs the error
AudioRead ==
    /\ audioTask.pc = "read"
    /\ \E ok \in BOOLEAN :
          IF ok
          THEN LET o == audioTask.item
                   ranges == buildHighlights(FileData(heap[o].filePath,
                                                      disk[heap[o].filePath]),
                                             audioTask.duration)
               IN  /\ heap' = [heap EXCEPT
                                 ![o].highlights = ranges,
                                 ![o].progress =
                                     computeProgress(ranges, settings.ignoreStartAndBreaks)]
                   /\ rendered' = updateListItemElement(rendered, heap', beatmapItems,
                                                        heap[o].id)
                   /\ saveTimer' = TRUE
          ELSE UNCHANGED <<heap, rendered, saveTimer>>
    /\ audioTask' = [pc |-> "yield"]
    /\ UNCHANGED <<disk, beatmapItems, audioAnalysisQueue, isAnalyzingAudio, playTask,
                   savedItems, refreshTask, notLibraryVars>>

\* processAudioQueue: the pause of 100 ms is over, the loop goes on
AudioYield ==
    /\ audioTask.pc = "yield"
    /\ LET next == AudioLoop(heap, beatmapItems, audioAnalysisQueue)
       IN  /\ audioAnalysisQueue' = next.queue
           /\ isAnalyzingAudio' = next.analyzing
           /\ audioTask' = next.task
    /\ UNCHANGED <<disk, heap, beatmapItems, playTask, saveTimer, savedItems,
                   rendered, refreshTask, notLibraryVars>>

\* AudioController.play(itemId) of a shown item without a duration, up to
\* its await of getAudioDurationMs
AudioPlay ==
    /\ playTask.pc = "idle"
    /\ \E k \in 1..Len(rendered) :
          LET found == Find(heap, beatmapItems, rendered[k].id)
          IN  /\ found.some
              /\ heap[found.val].audio # ""
              /\ ~heap[found.val].durationMs.some
              /\ playTask' = [pc |-> "measure", item |-> found.val]
    /\ UNCHANGED <<disk, heap, beatmapItems, audioAnalysisQueue, isAnalyzingAudio,
                   audioTask, saveTimer, savedItems, rendered, refreshTask,
                   notLibraryVars>>

\* AudioController.play: getAudioDurationMs(audioPath) returns
AudioPlayMeasured ==
    /\ playTask.pc = "measure"
    /\ \E duration \in MeasuredDurations :
          IF duration.some /\ ~JsFalsy(duration.val)
          THEN /\ heap' = [heap EXCEPT ![playTask.item].durationMs = duration]
               /\ rendered' = updateListItemElement(rendered, heap', beatmapItems,
                                                    heap[playTask.item].id)
               /\ saveTimer' = TRUE
          ELSE UNCHANGED <<heap, rendered, saveTimer>>
    /\ playTask' = [pc |-> "idle"]
    /\ UNCHANGED <<disk, beatmapItems, audioAnalysisQueue, isAnalyzingAudio, audioTask,
                   savedItems, refreshTask, notLibraryVars>>

\* the order in which a scan lists the files
PathList == <<"s/a.osu", "s/b.osu">>

RECURSIVE LastWith(_, _, _, _)
\* the last item of the list with the path (a later Map.set or assignment
\* with the same key replaces the earlier one)
LastWith(h, items, path, k) ==
    IF h[items[k]].filePath = path THEN items[k] ELSE LastWith(h, items, path, k - 1)

\* beatmapItems.forEach(item => existingItemsMap.set(item.filePath, item))
ExistingItemsMap(h, items) ==
    [path \in {h[items[k]].filePath : k \in 1..Len(items)} |->
        LastWith(h, items, path, Len(items))]

\* knownFiles[item.filePath] = item.dateModified
KnownFiles(h, items) ==
    [path \in {h[items[k]].filePath : k \in 1..Len(items)} |->
        h[LastWith(h, items, path, Len(items))].dateModified]

\* the entry that processFiles pushes for a file it could stat and read,
\* without a mapper filter: marked unchanged when knownFiles has its mtime
ScanEntry(path, knownFiles, version) ==
    IF path \in DOMAIN knownFiles /\ knownFiles[path] = version
    THEN [filePath |-> path, mtimeMs |-> version, unchanged |-> TRUE, data |-> Null]
    ELSE [filePath |-> path, mtimeMs |-> version, unchanged |-> FALSE,
          data |-> Some(FileData(path, version))]

\* refreshLastDirectory up to its await of the scan: pending audio analysis
\* is scheduled and resumed, the known files are collected
RefreshLastDirectory ==
    /\ refreshTask.pc = "idle"
    /\ Len(heap) + Len(PathList) <= MaxItemObjects
    /\ LET NoDuration(o) ==
               heap[o].audio # ""
               /\ (~heap[o].durationMs.some \/ JsFalsy(heap[o].durationMs.val))
           missing == SelectSeq(beatmapItems, NoDuration)
           RECURSIVE Schedule(_, _)
           Schedule(queue, k) ==
               IF k = 0 THEN queue
               ELSE scheduleAudioAnalysis(Schedule(queue, k - 1), heap[missing[k]].id)
           next == processAudioQueue(heap, beatmapItems,
                                     Schedule(audioAnalysisQueue, Len(missing)),
                                     isAnalyzingAudio, audioTask)
       IN  /\ audioAnalysisQueue' = next.queue
           /\ isAnalyzingAudio' = next.analyzing
           /\ audioTask' = next.task
    /\ refreshTask' = [pc |-> "scan", knownFiles |-> KnownFiles(heap, beatmapItems)]
    /\ UNCHANGED <<disk, heap, beatmapItems, playTask, saveTimer, savedItems,
                   rendered, notLibraryVars>>

\* the scan returns and loadBeatmapsFromResult starts: the result holds
\* the files as they are now, the map of existing items the list as it is now
ScanReturns ==
    /\ refreshTask.pc = "scan"
    /\ LET files == [k \in 1..Len(PathList) |->
                        ScanEntry(PathList[k], refreshTask.knownFiles,
                                  disk[PathList[k]])]
       IN  refreshTask' =
              [pc |-> "load", files |-> files, taskQueue |-> files,
               existingItemsMap |-> ExistingItemsMap(heap, beatmapItems),
               items |-> <<>>]
    /\ UNCHANGED <<disk, heap, beatmapItems, audioAnalysisQueue, isAnalyzingAudio,
                   audioTask, playTask, saveTimer, savedItems, rendered,
                   notLibraryVars>>

\* loadBeatmapsFromResult, processNext: one file of the task queue
ProcessNext ==
    /\ refreshTask.pc = "load"
    /\ Len(refreshTask.taskQueue) > 0
    /\ LET file == Head(refreshTask.taskQueue)
           known == file.filePath \in DOMAIN refreshTask.existingItemsMap
           existing == IF known THEN Some(refreshTask.existingItemsMap[file.filePath])
                       ELSE Null
           made == processWorkerResult(
                       file, IF known THEN Some(heap[existing.val]) ELSE Null,
                       settings.ignoreStartAndBreaks)
       IN  IF file.unchanged /\ known
           THEN /\ refreshTask' = [refreshTask EXCEPT
                                     !.taskQueue = Tail(@),
                                     !.items = Append(@, existing.val)]
                /\ UNCHANGED <<heap, audioAnalysisQueue>>
           ELSE IF made.some
           THEN /\ heap' = Append(heap, made.val.item)
                /\ refreshTask' = [refreshTask EXCEPT
                                     !.taskQueue = Tail(@),
                                     !.items = Append(@, Len(heap) + 1)]
                /\ audioAnalysisQueue' =
                      IF made.val.schedule
                      THEN scheduleAudioAnalysis(audioAnalysisQueue, made.val.item.id)
                      ELSE audioAnalysisQueue
           ELSE /\ refreshTask' = [refreshTask EXCEPT !.taskQueue = Tail(@)]
                /\ UNCHANGED <<heap, audioAnalysisQueue>>
    /\ UNCHANGED <<disk, beatmapItems, isAnalyzingAudio, audioTask, playTask,
                   saveTimer, savedItems, rendered, notLibraryVars>>

\* loadBeatmapsFromResult after its workers: the items of the scanned
\* directory are replaced, the list is rendered and saved, the audio queue
\* is resumed
LoadBeatmapsFromResult ==
    /\ refreshTask.pc = "load"
    /\ Len(refreshTask.taskQueue) = 0
    /\ LET items == refreshTask.items
           newPaths == {heap[items[k]].filePath : k \in 1..Len(items)}
           Kept(o) == heap[o].filePath \notin newPaths
           merged == IF Len(items) = 0 THEN <<>>
                     ELSE SelectSeq(beatmapItems, Kept) \o items
           next == processAudioQueue(heap, merged, audioAnalysisQueue,
                                     isAnalyzingAudio, audioTask)
       IN  /\ beatmapItems' = merged
           /\ rendered' = renderFromState(heap, merged)
           /\ audioAnalysisQueue' = next.queue
           /\ isAnalyzingAudio' = next.analyzing
           /\ audioTask' = next.task
    /\ saveTimer' = TRUE
    /\ refreshTask' = [pc |-> "idle"]
    /\ UNCHANGED <<disk, heap, playTask, savedItems, notLibraryVars>>

\* the clear-all dialog is confirmed
ClearAll ==
    /\ Len(beatmapItems) > 0
    /\ beatmapItems' = <<>>
    /\ rendered' = <<>>
    /\ savedItems' = <<>>
    /\ UNCHANGED <<disk, heap, audioAnalysisQueue, isAnalyzingAudio, audioTask,
                   playTask, saveTimer, refreshTask, notLibraryVars>>

\* a file of the directory is written by another program
TouchFile ==
    /\ \E path \in Paths :
          /\ disk[path] < MaxVersion
          /\ disk' = [disk EXCEPT ![path] = @ + 1]
    /\ UNCHANGED <<heap, beatmapItems, audioAnalysisQueue, isAnalyzingAudio,
                   audioTask, playTask, saveTimer, savedItems, rendered, refreshTask,
                   notLibraryVars>>

\* the item objects that the running tasks hold
TaskObjects ==
    (IF audioTask.pc \in {"measure", "read"} THEN {audioTask.item} ELSE {})
    \cup (IF playTask.pc = "measure" THEN {playTask.item} ELSE {})
    \cup (IF refreshTask.pc = "load"
          THEN {refreshTask.items[k] : k \in 1..Len(refreshTask.items)}
               \cup {refreshTask.existingItemsMap[q] :
                        q \in DOMAIN refreshTask.existingItemsMap}
          ELSE {})

\* the change handler of the #ignoreStartAndBreaks checkbox on the list:
\* settings[id] = checked, saveSettings(), and beatmapItems becomes a list
\* of copies of its items with the progress computed again. The objects
\* that nothing refers to any more leave the heap, the others keep their
\* order.
SettingToggled ==
    LET copies == [k \in 1..Len(beatmapItems) |->
                      [heap[beatmapItems[k]] EXCEPT
                         !.progress = computeProgress(heap[beatmapItems[k]].highlights,
                                                      ~settings.ignoreStartAndBreaks)]]
        all == heap \o copies
        live == TaskObjects \cup {Len(heap) + k : k \in 1..Len(beatmapItems)}
        Moved(o) == Cardinality({x \in live : x <= o})
        Origin(i) == CHOOSE o \in live : Moved(o) = i
    IN  /\ Cardinality(live) <= MaxItemObjects
        /\ settings' = [settings EXCEPT !.ignoreStartAndBreaks = ~@]
        /\ heap' = [i \in 1..Cardinality(live) |-> all[Origin(i)]]
        /\ beatmapItems' = [k \in 1..Len(beatmapItems) |-> Moved(Len(heap) + k)]
        /\ rendered' = renderFromState(heap', beatmapItems')
        /\ audioTask' = IF audioTask.pc \in {"measure", "read"}
                        THEN [audioTask EXCEPT !.item = Moved(@)] ELSE audioTask
        /\ playTask' = IF playTask.pc = "measure"
                       THEN [playTask EXCEPT !.item = Moved(@)] ELSE playTask
        /\ refreshTask' =
              IF refreshTask.pc = "load"
              THEN [refreshTask EXCEPT
                      !.items = [k \in 1..Len(@) |-> Moved(@[k])],
                      !.existingItemsMap = [q \in DOMAIN @ |-> Moved(@[q])]]
              ELSE refreshTask
        /\ UNCHANGED <<disk, audioAnalysisQueue, isAnalyzingAudio, saveTimer, savedItems>>
        /\ UNCHANGED <<parseVars, timingVars, rangeVars, highlights, progress, ppc,
                       storageVars, scanVars, listVars>>

\* buildItemFromCache(cached, stat): the cached fields, the highlights
\* deserialized, the modification time of the file
buildItemFromCache(cached, mtimeMs) ==
    [audio |-> cached.audio, durationMs |-> cached.durationMs,
     highlights |-> deserializeHighlights(cached.highlights),
     progress |-> cached.progress, dateModified |-> mtimeMs, id |-> cached.id,
     filePath |-> cached.filePath]

\* loadFromStorage, processNext on one cached item: the item built from the
\* cache when the file has the cached modification time, else from the file
LoadedItem(cached, d, ignoreStartAndBreaks) ==
    IF cached.dateModified = d[cached.filePath]
    THEN buildItemFromCache(cached, d[cached.filePath])
    ELSE processWorkerResult(
             [filePath |-> cached.filePath, mtimeMs |-> d[cached.filePath],
              unchanged |-> FALSE,
              data |-> Some(FileData(cached.filePath, d[cached.filePath]))],
             Some(cached), ignoreStartAndBreaks).val.item

\* The program is closed and started again: loadSettings reads what the
\* last saveSettings wrote, loadFromStorage builds the items of the payload
\* last saved (in the order of the payload) and calls processAudioQueue, and
\* the startup sequence schedules the items without a duration. A pending
\* timer of scheduleSave and the running tasks end with the old process.
Startup ==
    /\ Len(savedItems) > 0
    /\ heap' = [k \in 1..Len(savedItems) |->
                   LoadedItem(savedItems[k], disk, settings.ignoreStartAndBreaks)]
    /\ beatmapItems' = [k \in 1..Len(savedItems) |-> k]
    /\ rendered' = renderFromState(heap', beatmapItems')
    /\ LET first == processAudioQueue(heap', beatmapItems', <<>>, FALSE, [pc |-> "idle"])
           NoDuration(o) == heap'[o].audio # "" /\ ~heap'[o].durationMs.some
           missing == SelectSeq(beatmapItems', NoDuration)
           RECURSIVE Schedule(_, _)
           Schedule(queue, k) ==
               IF k = 0 THEN queue
               ELSE scheduleAudioAnalysis(Schedule(queue, k - 1), heap'[missing[k]].id)
           next == IF Len(missing) = 0 THEN first
                   ELSE processAudioQueue(heap', beatmapItems',
                                          Schedule(first.queue, Len(missing)),
                                          first.analyzing, first.task)
       IN  /\ audioAnalysisQueue' = next.queue
           /\ isAnalyzingAudio' = next.analyzing
           /\ audioTask' = next.task
    /\ playTask' = [pc |-> "idle"]
    /\ refreshTask' = [pc |-> "idle"]
    /\ saveTimer' = FALSE
    /\ UNCHANGED <<disk, savedItems, notLibraryVars>>

InitLibraryIdle ==
    /\ disk = [p \in Paths |-> 1]
    /\ heap = <<>>
    /\ beatmapItems = <<>>
    /\ audioAnalysisQueue = <<>>
    /\ isAnalyzingAudio = FALSE
    /\ audioTask = [pc |-> "idle"]
    /\ playTask = [pc |-> "idle"]
    /\ saveTimer = FALSE
    /\ savedItems = <<>>
    /\ rendered = <<>>
    /\ refreshTask = [pc |-> "idle"]

(***************************************************************************)
(* The scanner worker: batchStatFiles and processFiles                      *)
(***************************************************************************)
PROGRESS_REPORT_INTERVAL == 25

\* most files in the slice of one worker
MaxFiles == 2

\* the text of a file by Ann and of a file by Bob, as lines
\*   "[Metadata]" "Creator:Ann" "Version:Hard"
\*   "[Metadata]" "Creator:Bob" "Version:Easy"
ByAnn == <<<<"[","M","e","t","a","d","a","t","a","]">>, <<"C","r","e","a","t","o","r",":","A","n","n">>, <<"V","e","r","s","i","o","n",":","H","a","r","d">>>>
ByBob == <<<<"[","M","e","t","a","d","a","t","a","]">>, <<"C","r","e","a","t","o","r",":","B","o","b">>, <<"V","e","r","s","i","o","n",":","E","a","s","y">>>>

\* A file of the slice as the worker meets it: whether stat succeeds, whether
\* knownFiles has its mtime, whether it can be opened and read, and its text
ScanFiles == [stat : BOOLEAN, known : BOOLEAN, readable : BOOLEAN, content : {ByAnn, ByBob}]

\* the mapper name of the scan: none, or a name
ScanNames == {<<>>, <<"a","n","n">>}

\* needle = mapperName ? mapperName.toLowerCase() : null
Needle ==
    IF workerData.mapperName = <<>> THEN Null ELSE Some(toLowerCase(workerData.mapperName))

\* s.includes(sub)
includes(s, sub) ==
    \E i \in 0..(Len(s) - Len(sub)) : SubSeq(s, i + 1, i + Len(sub)) = sub

\* readOsuHeader(filePath): the start of the file without the byte-order
\* mark, the empty string when the file cannot be opened or read; the files
\* of the model are shorter than the buffer
readOsuHeader(file) ==
    IF ~file.readable \/ file.content = <<>> THEN <<>>
    ELSE IF Len(file.content[1]) > 0 /\ file.content[1][1] = "BOM"
    THEN <<Tail(file.content[1])>> \o Tail(file.content)
    ELSE file.content

\* the body of the loop of parseMetadataFromHeader for one line: st is
\* [meta, section, stop], stop after the break
parseMetadataFromHeaderLine(line, st) ==
    LET trimmed == trim(line)
        sep == indexOf(trimmed, ":", 1)
        key == toLowerCase(trim(Slice(trimmed, 1, sep)))
        val == trim(Slice(trimmed, sep + 1, Len(trimmed) + 1))
        meta == IF key = KEY_CREATOR THEN [st.meta EXCEPT !.creator = val]
                ELSE IF key = KEY_VERSION THEN [st.meta EXCEPT !.version = val]
                ELSE st.meta
    IN  IF st.stop THEN st
        ELSE IF Len(trimmed) = 0 \/ (Len(trimmed) >= 2 /\ trimmed[1] = "/" /\ trimmed[2] = "/")
        THEN st
        ELSE IF trimmed[1] = "[" /\ trimmed[Len(trimmed)] = "]"
        THEN [st EXCEPT !.section = toLowerCase(Slice(trimmed, 2, Len(trimmed)))]
        ELSE IF st.section # <<"m","e","t","a","d","a","t","a">> \/ sep = 0 THEN st
        ELSE [st EXCEPT !.meta = meta,
                        !.stop = Len(meta.creator) > 0 /\ Len(meta.version) > 0]

RECURSIVE parseMetadataFromHeaderFrom(_, _)
parseMetadataFromHeaderFrom(lines, k) ==
    IF k = 0 THEN [meta |-> [creator |-> <<>>, version |-> <<>>], section |-> <<>>,
                   stop |-> FALSE]
    ELSE parseMetadataFromHeaderLine(lines[k], parseMetadataFromHeaderFrom(lines, k - 1))

\* parseMetadataFromHeader(content)
parseMetadataFromHeader(lines) == parseMetadataFromHeaderFrom(lines, Len(lines)).meta

\* if (needle), in both places: for a file of the cache and for another one;
\* here the files of the cache go unfiltered
FilterApplies_NotCached(cached) == Needle.some /\ ~cached

\* if (needle), in both places: for a file of the cache and for another one
FilterApplies(cached) == Needle.some

\* creator.includes(needle) || version.includes(needle) for the header of
\* the file
HeaderMatches(file) ==
    LET metadata == parseMetadataFromHeader(readOsuHeader(file))
    IN  \/ includes(toLowerCase(metadata.creator), Needle.val)
        \/ includes(toLowerCase(metadata.version), Needle.val)

\* the path of the k-th file of the slice
PathOf(k) == <<"s/", k, ".osu">>

\* batchStatFiles(filePaths)
batchStatFiles(files) ==
    [k \in 1..Len(files) |->
        [path |-> PathOf(k), stat |-> files[k].stat,
         error |-> IF files[k].stat THEN "" ELSE "ENOENT"]]

\* the progress message, sent every PROGRESS_REPORT_INTERVAL files and after
\* the last one
Report(task, msgs) ==
    IF task.processedCount % PROGRESS_REPORT_INTERVAL = 0
       \/ task.processedCount = task.totalFiles
    THEN Append(msgs, [type |-> "progress", processed |-> task.processedCount,
                       total |-> task.totalFiles, cached |-> task.cachedCount,
                       skipped |-> task.skippedCount, errors |-> task.errorCount])
    ELSE msgs

\* the branch of a failed stat
StatError(task, statResult) ==
    [task EXCEPT !.errorCount = @ + 1,
                 !.errors = Append(@, [filePath |-> statResult.path, phase |-> "stat"]),
                 !.processedCount = @ + 1,
                 !.i = @ + 1]

\* the file is skipped: the header has no match for the mapper name (the
\* header of a file that cannot be opened is the empty string)
Skipped(task) ==
    [task EXCEPT !.skippedCount = @ + 1, !.processedCount = @ + 1, !.i = @ + 1]

\* processFiles: the worker starts and batchStatFiles returns
ProcessFilesStat ==
    /\ scanTask.pc = "start"
    /\ scanTask' = [pc |-> "loop", i |-> 1, results |-> <<>>, errors |-> <<>>,
                    totalFiles |-> Len(workerData.filePaths),
                    processedCount |-> 0, skippedCount |-> 0, cachedCount |-> 0,
                    errorCount |-> 0, io |-> <<>>,
                    statResults |-> batchStatFiles(workerData.filePaths)]
    /\ UNCHANGED <<workerData, messages, pool>>
    /\ UNCHANGED <<parseVars, timingVars, rangeVars, progressVars, storageVars, listVars,
                   libraryVars>>

\* processFiles: one turn of the loop over the stat results
ProcessFilesNext ==
    /\ scanTask.pc = "loop"
    /\ scanTask.i <= Len(scanTask.statResults)
    /\ LET statResult == scanTask.statResults[scanTask.i]
           file == workerData.filePaths[scanTask.i]
           header == IF Needle.some THEN <<[op |-> "readOsuHeader", path |-> statResult.path]>>
                     ELSE <<>>
           full == <<[op |-> "readFile", path |-> statResult.path]>>
           noMatch == FilterApplies(file.known) /\ ~HeaderMatches(file)
           pushed(entry, cached) ==
               [scanTask EXCEPT !.results = Append(@, entry),
                                !.cachedCount = @ + cached,
                                !.processedCount = @ + 1,
                                !.i = @ + 1]
           caught == [scanTask EXCEPT
                         !.errorCount = @ + 1,
                         !.errors = Append(@, [filePath |-> statResult.path,
                                               phase |-> "parse"]),
                         !.processedCount = @ + 1,
                         !.i = @ + 1]
       IN  IF ~statResult.stat
           THEN /\ scanTask' = StatError(scanTask, statResult)
                /\ UNCHANGED messages
           ELSE LET step == IF noMatch THEN Skipped(scanTask)
                            ELSE IF file.known
                            THEN pushed([filePath |-> statResult.path,
                                         unchanged |-> TRUE], 1)
                            ELSE IF ~file.readable THEN caught
                            ELSE pushed([filePath |-> statResult.path,
                                         unchanged |-> FALSE], 0)
                    next == [step EXCEPT !.io =
                                @ \o header
                                  \o (IF noMatch \/ file.known THEN <<>> ELSE full)]
                IN  /\ scanTask' = next
                    /\ messages' = Report(next, messages)
    /\ UNCHANGED <<workerData, pool>>
    /\ UNCHANGED <<parseVars, timingVars, rangeVars, progressVars, storageVars, listVars,
                   libraryVars>>

\* processFiles: after the loop, the 'complete' message
ProcessFilesComplete ==
    /\ scanTask.pc = "loop"
    /\ scanTask.i > Len(scanTask.statResults)
    /\ messages' = Append(messages,
            [type |-> "complete", results |-> scanTask.results,
             stats |-> [total |-> scanTask.totalFiles,
                        processed |-> Len(scanTask.results),
                        cached |-> scanTask.cachedCount,
                        skipped |-> scanTask.skippedCount,
                        errors |-> scanTask.errorCount,
                        errorDetails |-> scanTask.errors]])
    /\ scanTask' = [pc |-> "done", io |-> scanTask.io]
    /\ UNCHANGED <<workerData, pool>>
    /\ UNCHANGED <<parseVars, timingVars, rangeVars, progressVars, storageVars, listVars,
                   libraryVars>>

(***************************************************************************)
(* runScannerWorkers (main process): the pool of scanner workers           *)
(***************************************************************************)
\* the cap of Math.min(os.cpus().length, 4, filePaths.length)
MAX_WORKERS == 4

\* most files of a scan
MaxPoolFiles == 5
\* os.cpus().length of the machines: fewer cores than the cap, and more
Cores == {1, 2, 8}

Pending == [state |-> "pending", value |-> <<>>]
Resolved(v) == [state |-> "resolved", value |-> v]
Rejected(why) == [state |-> "rejected", value |-> why]

\* before runScannerWorkers is called
PoolIdle == [pc |-> "idle", cores |-> 0, filePaths |-> <<>>, workers |-> <<>>,
             promise |-> Pending]

Min(a, b) == IF a < b THEN a ELSE b

\* arr.slice(begin, end) for 0 <= begin <= end, with indices from 0
ArraySlice(arr, begin, end) ==
    [k \in 1..(Min(end, Len(arr)) - Min(begin, Len(arr))) |-> arr[Min(begin, Len(arr)) + k]]

numWorkers(cores, n) == Min(Min(cores, MAX_WORKERS), n)

\* Math.floor in the place of Math.ceil
chunkSize_Floor(n, workers) == n \div workers

\* Math.ceil(filePaths.length / numWorkers)
chunkSize(n, workers) == (n + workers - 1) \div workers

RECURSIVE Chunks(_, _, _)
\* the for loop: the chunks of the workers i..numWorkers - 1, one for each
\* slice that is not empty
Chunks(filePaths, i, workers) ==
    IF i >= workers THEN <<>>
    ELSE LET size == chunkSize(Len(filePaths), workers)
             chunk == ArraySlice(filePaths, i * size, (i + 1) * size)
         IN  (IF Len(chunk) = 0 THEN <<>> ELSE <<chunk>>)
                 \o Chunks(filePaths, i + 1, workers)

\* a worker that has just been started with its chunk: its thread runs, it
\* has posted no results and has no exit code, and its promise is pending
NewWorker(chunk) ==
    [chunk |-> chunk, thread |-> "running", posted |-> Null, code |-> Null,
     promise |-> Pending]

RECURSIVE Flat(_)
\* results.flat()
Flat(lists) == IF lists = <<>> THEN <<>> ELSE Head(lists) \o Flat(Tail(lists))

\* Promise.all(promises): rejected with the first rejection, resolved with
\* the values of all promises once each is resolved
PromiseAll(promise, workers) ==
    IF promise.state # "pending" THEN promise
    ELSE IF \E i \in 1..Len(workers) : workers[i].promise.state = "rejected"
    THEN Rejected("worker")
    ELSE IF \A i \in 1..Len(workers) : workers[i].promise.state = "resolved"
    THEN Resolved(Flat([i \in 1..Len(workers) |-> workers[i].promise.value]))
    ELSE promise

\* resolve(value) and reject(reason) of a worker's promise: the first call
\* settles it, later calls change nothing
Resolve(w, v) == IF w.promise.state = "pending" THEN [w EXCEPT !.promise = Resolved(v)] ELSE w
Reject(w, why) == IF w.promise.state = "pending" THEN [w EXCEPT !.promise = Rejected(why)] ELSE w

\* worker.on('message', ...) for a message msg of worker w; typeof msg is
\* 'object' for an array as well, and an array has no type
OnMessage(w, msg) ==
    IF msg.kind \in {"object", "array"}
    THEN IF msg.kind = "object" /\ msg.type = "complete" THEN Resolve(w, msg.results)
         ELSE IF msg.kind = "object" /\ msg.type = "error" THEN Reject(w, "message")
         ELSE w
    ELSE Resolve(w, <<>>)

\* worker.on('exit', ...)
OnExit(w, code) == IF code # 0 THEN Reject(w, "exit") ELSE w

\* the pool after worker i has become w
WithWorker(i, w) ==
    LET workers == [pool.workers EXCEPT ![i] = w]
    IN  [pool EXCEPT !.workers = workers, !.promise = PromiseAll(pool.promise, workers)]

PoolFrame ==
    /\ UNCHANGED <<workerData, scanTask, messages>>
    /\ UNCHANGED <<parseVars, timingVars, rangeVars, progressVars, storageVars, listVars,
                   libraryVars>>

\* runScannerWorkers(filePaths, mapperName, knownFiles) on a machine with
\* some number of cores, up to the return of the promise
RunScannerWorkers ==
    /\ pool.pc = "idle"
    /\ \E n \in 0..MaxPoolFiles, cores \in Cores :
          LET filePaths == [k \in 1..n |-> PathOf(k)]
              chunks == Chunks(filePaths, 0, numWorkers(cores, n))
              workers == [i \in 1..Len(chunks) |-> NewWorker(chunks[i])]
          IN  pool' = [pc |-> "running", cores |-> cores, filePaths |-> filePaths,
                       workers |-> workers,
                       promise |-> IF numWorkers(cores, n) = 0 THEN Resolved(<<>>)
                                   ELSE PromiseAll(Pending, workers)]
    /\ PoolFrame

\* the results a worker posts for its chunk: an entry for each file, or for
\* each but the first one (skipped, or failed)
ResultsOf(chunk) ==
    LET all == [k \in 1..Len(chunk) |-> [filePath |-> chunk[k], unchanged |-> FALSE]]
    IN  {all, Tail(all)}

\* worker i posts its 'progress' message (after the last file of a chunk of
\* fewer than PROGRESS_REPORT_INTERVAL files)
WorkerProgress(i) ==
    /\ pool.workers[i].thread = "running"
    /\ pool' = WithWorker(i, OnMessage([pool.workers[i] EXCEPT !.thread = "reported"],
                                       [kind |-> "object", type |-> "progress"]))
    /\ PoolFrame

\* worker i posts its 'complete' message
WorkerComplete(i) ==
    /\ pool.workers[i].thread = "reported"
    /\ \E results \in ResultsOf(pool.workers[i].chunk) :
          pool' = WithWorker(i, OnMessage([pool.workers[i] EXCEPT
                                              !.thread = "finished",
                                              !.posted = Some(results)],
                                          [kind |-> "object", type |-> "complete",
                                           results |-> results]))
    /\ PoolFrame

\* processFiles of worker i fails and its catch posts the 'error' message
WorkerErrorMessage(i) ==
    /\ pool.workers[i].thread \in {"running", "reported"}
    /\ pool' = WithWorker(i, OnMessage([pool.workers[i] EXCEPT !.thread = "finished"],
                                       [kind |-> "object", type |-> "error"]))
    /\ PoolFrame

\* a worker of the original format posts its results as a bare array
WorkerLegacyArray(i) ==
    /\ pool.workers[i].thread = "running"
    /\ \E results \in ResultsOf(pool.workers[i].chunk) :
          pool' = WithWorker(i, OnMessage([pool.workers[i] EXCEPT
                                              !.thread = "finished",
                                              !.posted = Some(results)],
                                          [kind |-> "array", results |-> results]))
    /\ PoolFrame

\* the thread of worker i dies of an uncaught exception: the 'error' event
WorkerErrorEvent(i) ==
    /\ pool.workers[i].thread \in {"running", "reported", "finished"}
    /\ pool' = WithWorker(i, Reject([pool.workers[i] EXCEPT !.thread = "crashed"], "error"))
    /\ PoolFrame

\* the thread of worker i ends: the 'exit' event, with code 0 after
\* processFiles has settled and code 1 after an uncaught exception
WorkerExit(i) ==
    /\ pool.workers[i].thread \in {"finished", "crashed"}
    /\ LET code == IF pool.workers[i].thread = "crashed" THEN 1 ELSE 0
       IN  pool' = WithWorker(i, OnExit([pool.workers[i] EXCEPT !.thread = "exited",
                                                                !.code = Some(code)],
                                        code))
    /\ PoolFrame

\* the thread of worker i is ended from outside (process.exit, terminate, out
\* of memory): the 'exit' event with a code that is not 0 and no 'error' event
WorkerKilled(i) ==
    /\ pool.workers[i].thread \in {"running", "reported", "finished"}
    /\ pool' = WithWorker(i, OnExit([pool.workers[i] EXCEPT !.thread = "exited",
                                                            !.code = Some(1)],
                                    1))
    /\ PoolFrame


(***************************************************************************)
(* The todo list and the completed list: toggleTodo and toggleDone          *)
(***************************************************************************)

\* most item ids the lists are toggled with
MaxListIds == 3
ListIds == 1..MaxListIds

\* arr.includes(id) on a list of ids
IdIncludes(arr, id) == \E k \in 1..Len(arr) : arr[k] = id
\* arr.filter(x => x !== id)
IdFilterOut(arr, id) == SelectSeq(arr, LAMBDA x : x /= id)

ListFrame ==
    UNCHANGED <<parseVars, timingVars, rangeVars, progressVars, storageVars,
                libraryVars, scanVars>>

\* toggleTodo(itemId): unpin a pinned id, else push it at the end of todoIds
toggleTodo(itemId) ==
    /\ IF IdIncludes(todoIds, itemId)
          THEN todoIds' = IdFilterOut(todoIds, itemId)
          ELSE todoIds' = Append(todoIds, itemId)
    /\ UNCHANGED <<doneIds, viewMode>>
    /\ ListFrame

\* toggleDone(itemId): a done id leaves doneIds and goes to the front of
\* todoIds unless it is there; any other id is pushed on doneIds and
\* filtered out of todoIds
toggleDone(itemId) ==
    /\ IF IdIncludes(doneIds, itemId)
          THEN /\ doneIds' = IdFilterOut(doneIds, itemId)
               /\ todoIds' = IF ~IdIncludes(todoIds, itemId)
                                THEN <<itemId>> \o todoIds
                                ELSE todoIds
          ELSE /\ doneIds' = Append(doneIds, itemId)
               /\ todoIds' = IdFilterOut(todoIds, itemId)
    /\ UNCHANGED viewMode
    /\ ListFrame

InitListsIdle ==
    /\ todoIds = <<>>
    /\ doneIds = <<>>
    /\ viewMode = "all"

InitScanIdle ==
    /\ workerData = [filePaths |-> <<>>, mapperName |-> <<>>]
    /\ scanTask = [pc |-> "done", io |-> <<>>]
    /\ messages = <<>>
    /\ pool = PoolIdle

\* nothing but the parsers runs
InitOther == InitStorageIdle /\ InitLibraryIdle /\ InitListsIdle /\ InitScanIdle

Init == InitParse /\ InitTimingIdle /\ InitRangesIdle /\ InitProgressIdle /\ InitOther

\* both resolvers are called with the same time and the same list
InitTiming ==
    /\ InitParse
    /\ InitRangesIdle
    /\ InitProgressIdle
    /\ InitOther
    /\ qtime \in QueryTimes
    /\ qpoints \in SeqsUpTo(Points, MaxPoints)
    /\ gtiScan = ScanStart
    /\ gtScan = ScanStart

NextTiming ==
    \/ GetTimingInfoPoint
    \/ GetTimingInfoReturn
    \/ GetTimingPoint
    \/ GetTimingReturn

SpecTiming == InitTiming /\ [][NextTiming]_vars

Next ==
    \/ /\ Len(content) < MaxLines
       /\ \E ln \in LinesIn(SectionNameAt(Len(content))) : WorkerLine(ln)
    \/ WorkerReturn
    \/ RendererLine
    \/ RendererReturn

Spec == Init /\ [][Next]_vars

(***************************************************************************)
(* Long files: more hit objects than the arrays hold at allocation.  Line  *)
(* k + 1 of such a file is drawn from GrowLines(k).                        *)
(***************************************************************************)
\* longest file, in lines, of the specification of long files
GrowMaxLines == 104
\* number of lines after the header that are drawn freely
GrowFree == 2

\* "0,0,<t>,1": a circle at t
CircleAt(t) == <<"0", ",", "0", ",">> \o Decimal(t) \o <<",", "1">>
\* "0,0,<t>,2,0,L": a slider line of 6 fields at t
ShortSliderAt(t) == <<"0", ",", "0", ",">> \o Decimal(t) \o <<",", "2", ",", "0", ",", "L">>
\* "0,0,5": a line of 3 fields, not accepted
ThreeFields == <<"0",",","0",",","5">>

GrowLines(k) ==
    IF k = 0 THEN {<<"[","H","i","t","O","b","j","e","c","t","s","]">>}
    ELSE IF k <= GrowFree
    THEN {CircleAt(10 * k), ShortSliderAt(10 * k), ThreeFields}
    ELSE {IF k % 3 = 0 THEN ShortSliderAt(10 * k) ELSE CircleAt(10 * k)}

NextGrow ==
    \/ /\ Len(content) < GrowMaxLines
       /\ \E ln \in GrowLines(Len(content)) : WorkerLine(ln)
    \/ WorkerReturn
    \/ RendererLine
    \/ RendererReturn

SpecGrow == Init /\ [][NextGrow]_vars

(***************************************************************************)
(* The range builders on the result of a parse                             *)
(***************************************************************************)
\* most hit objects of a result given to the builders
MaxObjects == 3

InitRanges ==
    /\ InitParse
    /\ InitTimingIdle
    /\ InitProgressIdle
    /\ InitOther
    /\ durationMs \in Durations
    /\ \E ivs \in SeqsUpTo(ObjectIntervals, MaxObjects) :
          /\ objectStarts = [i \in 1..Len(ivs) |-> Num(ivs[i][1])]
          /\ objectEnds = [i \in 1..Len(ivs) |-> Num(ivs[i][2])]
    /\ breakPeriods = <<>>
    /\ bookmarks = <<>>
    /\ objectRanges = <<>>
    /\ breakRanges = <<>>
    /\ bookmarkRanges = <<>>
    /\ bpc = "object"

NextRanges ==
    \/ BuildHighlightRanges
    \/ BuildBreakRanges
    \/ BuildBookmarkRanges
    \/ BuildItem

SpecRanges == InitRanges /\ [][NextRanges]_vars

(***************************************************************************)
(* computeProgress on a loaded item, and the settings toggle               *)
(***************************************************************************)
\* most ranges of a loaded item
MaxRanges == 3

\* ranges of loaded items: objects, a break, a bookmark of the last bin, a
\* range without a type, and an object range that starts at the very end
LoadedRanges ==
    { Range(Num(0), Rat(1, 2), "object"), Range(Rat(1, 5), Rat(3, 10), "object"),
      Range(Rat(1, 10), Rat(1, 5), "break"),
      Range(Rat(199, 200), Rat(1001, 1000), "bookmark"),
      Range(Rat(3, 5), Num(1), NoType), Range(Num(1), Num(1), "object") }

InitProgress ==
    /\ InitParse
    /\ InitTimingIdle
    /\ InitRangesIdle
    /\ InitOther
    /\ settings \in [ignoreStartAndBreaks : BOOLEAN]
    /\ highlights \in SeqsUpTo(LoadedRanges, MaxRanges)
    /\ progress = Num(0)
    /\ ppc = "call"

NextProgress ==
    \/ ComputeProgress
    \/ ToggleIgnoreStartAndBreaks

SpecProgress == InitProgress /\ [][NextProgress]_vars

(***************************************************************************)
(* Saving an item and building it from the cache                           *)
(***************************************************************************)
\* most ranges of a saved item
MaxStored == 3

\* ranges as the builders return them: bins of 1/120 and 1/200, break
\* ranges at fractions of the duration, one of them (1/32) half way between
\* two numbers of four decimals
BuiltRanges ==
    { Range(Rat(1, 120), Rat(1, 60), "object"), Range(Rat(119, 120), Num(1), "object"),
      Range(Rat(1, 32), Rat(1, 3), "break"), Range(Rat(1, 10), Rat(1, 5), "break"),
      Range(Num(0), Rat(3, 500), "bookmark"),
      Range(Rat(199, 200), Rat(1001, 1000), "bookmark") }

InitStorage ==
    /\ InitParse
    /\ InitTimingIdle
    /\ InitRangesIdle
    /\ settings = DefaultSettings
    /\ highlights \in SeqsUpTo(BuiltRanges, MaxStored)
    /\ progress = computeProgress(highlights, settings.ignoreStartAndBreaks)
    /\ ppc = "idle"
    /\ InitStorageIdle
    /\ InitLibraryIdle
    /\ InitListsIdle
    /\ InitScanIdle

NextStorage ==
    \/ SaveToStorage
    \/ BuildItemFromCache

SpecStorage == InitStorage /\ [][NextStorage]_vars

(***************************************************************************)
(* Measuring the audio of the items of an imported directory                *)
(***************************************************************************)
InitAudio ==
    /\ InitParse
    /\ InitTimingIdle
    /\ InitRangesIdle
    /\ InitProgressIdle
    /\ InitOther

NextAudio ==
    \/ RefreshLastDirectory
    \/ ScanReturns
    \/ ProcessNext
    \/ LoadBeatmapsFromResult
    \/ AudioMeasured
    \/ AudioRead
    \/ AudioYield
    \/ AudioPlay
    \/ AudioPlayMeasured
    \/ SaveTimerFires

SpecAudio == InitAudio /\ [][NextAudio]_vars

(***************************************************************************)
(* Refreshing the directory while the list and the files change             *)
(***************************************************************************)
NextRefresh ==
    \/ RefreshLastDirectory
    \/ ScanReturns
    \/ ProcessNext
    \/ LoadBeatmapsFromResult
    \/ ClearAll
    \/ TouchFile
    \/ SaveTimerFires

SpecRefresh == InitAudio /\ [][NextRefresh]_vars

(***************************************************************************)
(* One scanner worker on its slice of files                                 *)
(***************************************************************************)
InitScan ==
    /\ InitParse
    /\ InitTimingIdle
    /\ InitRangesIdle
    /\ InitProgressIdle
    /\ InitStorageIdle
    /\ InitLibraryIdle
    /\ InitListsIdle
    /\ workerData \in [filePaths : SeqsUpTo(ScanFiles, MaxFiles), mapperName : ScanNames]
    /\ scanTask = [pc |-> "start", io |-> <<>>]
    /\ messages = <<>>
    /\ pool = PoolIdle

NextScan ==
    \/ ProcessFilesStat
    \/ ProcessFilesNext
    \/ ProcessFilesComplete

SpecScan == InitScan /\ [][NextScan]_vars

(***************************************************************************)
(* Files with an [Events] section: break periods of the two parsers         *)
(***************************************************************************)
\* longest file, in lines, of the specification of event lines
MaxEventLines == 3

\* start and end tokens of a break line
BreakStarts == {<<"1", "0", "0">>, <<"-", "5">>, <<"x">>}
BreakEnds == {<<"2", "0", "0">>, <<"1", "0", "0">>, <<"5", "0">>, <<>>}

\* break lines "2,start,end", some with a fourth field, one with the word
\* Break, and lines with one comma only
BreakLines ==
    {<<"2", ",">> \o a \o <<",">> \o b : a \in BreakStarts, b \in BreakEnds}
    \cup {<<"2", ",">> \o a \o <<",", "2", "0", "0", ",", "9">> : a \in BreakStarts}
    \cup { <<"2", ",", "7">>,
           <<"B", "r", "e", "a", "k", ",", "1", "0", "0", ",", "2", "0", "0">>,
           <<"2", ",", "3", "0", "0", ",", " ", "4", "0", "0">> }

\* the lines that may come at line k + 1 of the file
EventLines(k) == IF k = 0 THEN {EVENTS_HEADER} ELSE BreakLines

NextEvents ==
    \/ /\ Len(content) < MaxEventLines
       /\ \E ln \in EventLines(Len(content)) : WorkerLine(ln)
    \/ WorkerReturn
    \/ RendererLine
    \/ RendererReturn
    \/ ParseBreakPeriods

SpecEvents == Init /\ [][NextEvents]_vars

(***************************************************************************)
(* Files with lines of too few fields                                       *)
(***************************************************************************)
\* longest file, in lines, of the specification of short lines
MaxShortLines == 4

\* headers of the two sections, a timing point and a line of one field, a
\* slider, a circle and a line of three fields
\*   "[TimingPoints]"  "[HitObjects]"
\*   "0,500"  "7"
\*   "0,0,0,2,0,L,1,100"  "0,0,5000,1"  "0,0,5"
ShortFileLines ==
    { <<"[","T","i","m","i","n","g","P","o","i","n","t","s","]">>,
      <<"[","H","i","t","O","b","j","e","c","t","s","]">>,
      <<"0",",","5","0","0">>,
      <<"7">>,
      <<"0",",","0",",","0",",","2",",","0",",","L",",","1",",","1","0","0">>,
      <<"0",",","0",",","5","0","0","0",",","1">>,
      <<"0",",","0",",","5">> }

NextShort ==
    \/ /\ Len(content) < MaxShortLines
       /\ \E ln \in ShortFileLines : WorkerLine(ln)
    \/ WorkerReturn
    \/ RendererLine
    \/ RendererReturn

SpecShort == Init /\ [][NextShort]_vars

(***************************************************************************)
(* Files that begin with a byte-order mark                                  *)
(***************************************************************************)
\* longest file, in lines, of the specification of byte-order marks
MaxMarkLines == 3

\* first lines after the mark: a section header, a header after a space, a
\* comment, nothing, a hit-object line outside every section
\*   "[HitObjects]"  "[TimingPoints]"  " [HitObjects]"  "//c"  ""  "0,0,100,1"
AfterMark ==
    { <<"[","H","i","t","O","b","j","e","c","t","s","]">>,
      <<"[","T","i","m","i","n","g","P","o","i","n","t","s","]">>,
      <<" ","[","H","i","t","O","b","j","e","c","t","s","]">>,
      <<"/","/","c">>,
      <<>>,
      <<"0",",","0",",","1","0","0",",","1">> }

\* the lines after the first: a circle, a slider, a timing point, a header
\* with a mark before it
\*   "0,0,100,1"  "0,0,300,2,0,L,1,100"  "0,250"  "\uFEFF[HitObjects]"
MarkFileLines ==
    { <<"0",",","0",",","1","0","0",",","1">>,
      <<"0",",","0",",","3","0","0",",","2",",","0",",","L",",","1",",","1","0","0">>,
      <<"0",",","2","5","0">>,
      <<"BOM","[","H","i","t","O","b","j","e","c","t","s","]">> }

\* the lines that may come at line k + 1 of the file
MarkLines(k) ==
    IF k = 0 THEN AfterMark \cup {<<"BOM">> \o ln : ln \in AfterMark}
    ELSE MarkFileLines

NextMark ==
    \/ /\ Len(content) < MaxMarkLines
       /\ \E ln \in MarkLines(Len(content)) : WorkerLine(ln)
    \/ WorkerReturn
    \/ RendererLine
    \/ RendererReturn

SpecMark == Init /\ [][NextMark]_vars

(***************************************************************************)
(* The builders and processWorkerResult without a duration                  *)
(***************************************************************************)
\* a total duration that is not known
UnknownDurations == {Num(0), Null, Undefined}

\* hit objects of the calls: none, one at 0, one that ends at 0, one inside
UnknownObjects == {<<>>, <<<<0, 0>>>>, <<<<-10, 0>>>>, <<<<0, 599>>>>}

InitUnknown ==
    /\ InitParse
    /\ InitTimingIdle
    /\ InitProgressIdle
    /\ InitOther
    /\ durationMs \in UnknownDurations
    /\ \E ivs \in UnknownObjects :
          /\ objectStarts = [i \in 1..Len(ivs) |-> Num(ivs[i][1])]
          /\ objectEnds = [i \in 1..Len(ivs) |-> Num(ivs[i][2])]
    /\ breakPeriods = <<>>
    /\ bookmarks = <<>>
    /\ objectRanges = <<>>
    /\ breakRanges = <<>>
    /\ bookmarkRanges = <<>>
    /\ bpc = "object"

NextUnknown ==
    \/ BuildHighlightRanges
    \/ BuildBreakRanges
    \/ BuildBookmarkRanges
    \/ BuildItemFromResult

SpecUnknown == InitUnknown /\ [][NextUnknown]_vars

(***************************************************************************)
(* Hit objects with more than one of the type bits 2, 8 and 128             *)
(***************************************************************************)
\* longest file, in lines, of the specification of type bits
MaxTypeLines == 3

\* types: circle, slider, spinner, hold, and their combinations
TypeTokens ==
    { <<"1">>, <<"2">>, <<"8">>, <<"1","2","8">>, <<"1","0">>, <<"1","3","0">>,
      <<"1","3","6">>, <<"1","3","8">> }

\* lines at 100 of every type, of 6 fields with the end 900, of 6 fields
\* with the end in the syntax of a hold, of 8 fields with 2 slides of
\* length 100
\*   "0,0,100,T,0,900"  "0,0,100,T,0,900:0"  "0,0,100,T,0,900,2,100"
TypeLines ==
    {<<"0",",","0",",","1","0","0",",">> \o t \o <<",","0",",","9","0","0">> \o rest :
        t \in TypeTokens,
        rest \in {<<>>, <<":","0">>, <<",","2",",","1","0","0">>}}

\* the lines that may come at line k + 1 of the file
TypeFileLines(k) ==
    IF k = 0 THEN {<<"[","H","i","t","O","b","j","e","c","t","s","]">>} ELSE TypeLines

NextType ==
    \/ /\ Len(content) < MaxTypeLines
       /\ \E ln \in TypeFileLines(Len(content)) : WorkerLine(ln)
    \/ WorkerReturn
    \/ RendererLine
    \/ RendererReturn

SpecType == Init /\ [][NextType]_vars

(***************************************************************************)
(* Files whose declarations come before and after the sliders              *)
(***************************************************************************)
\* longest file, in lines, of the specification of declaration order
MaxOrderLines == 5

\*   "[Difficulty]"  "[TimingPoints]"  "[HitObjects]"
OrderHeaders ==
    { <<"[","D","i","f","f","i","c","u","l","t","y","]">>,
      <<"[","T","i","m","i","n","g","P","o","i","n","t","s","]">>,
      <<"[","H","i","t","O","b","j","e","c","t","s","]">> }

\*   "SliderMultiplier:2"  "SliderMultiplier:0"  "SliderMultiplier:x"
OrderDifficultyLines ==
    {<<"S","l","i","d","e","r","M","u","l","t","i","p","l","i","e","r",":">> \o v :
        v \in {<<"2">>, <<"0">>, <<"x">>}}

\*   "0,250"                  uninherited, 250 ms per beat
\*   "0,-50,4,2,0,100,0,0"    inherited, SV 2
OrderTimingLines ==
    { <<"0",",","2","5","0">>,
      <<"0",",","-","5","0",",","4",",","2",",","0",",","1","0","0",",","0",",","0">> }

\*   "0,0,0,2,0,L,1,100"      slider at 0, length 100
\*   "0,0,100,1"              circle at 100
OrderHitLines ==
    { <<"0",",","0",",","0",",","2",",","0",",","L",",","1",",","1","0","0">>,
      <<"0",",","0",",","1","0","0",",","1">> }

\* the lines that may follow in a file whose section in force is sec; a
\* SliderMultiplier line may also stand outside its section
OrderLines(sec) ==
    OrderHeaders \cup
    { <<"S","l","i","d","e","r","M","u","l","t","i","p","l","i","e","r",":","2">> } \cup
    (CASE sec = SECTIONS.DIFFICULTY -> OrderDifficultyLines
       [] sec = SECTIONS.TIMING_POINTS -> OrderTimingLines
       [] sec = SECTIONS.HIT_OBJECTS -> OrderHitLines
       [] OTHER -> {})

NextOrder ==
    \/ /\ Len(content) < MaxOrderLines
       /\ \E ln \in OrderLines(section) : WorkerLine(ln)
    \/ WorkerReturn
    \/ RendererLine
    \/ RendererReturn

SpecOrder == Init /\ [][NextOrder]_vars

(***************************************************************************)
(* Bookmarks of a result, with the duration processWorkerResult chooses    *)
(***************************************************************************)
\* longest list of bookmarks of a result
MaxBookmarks == 2

\* bookmarks: far below zero, just below zero, at zero, in adjacent bins,
\* in the last bin, beyond a duration of 1200
BookmarkTimes == {-3000, -5, 0, 600, 606, 1199, 1500}

\* hit objects and breaks of the result: none, far below zero, inside
ResultObjects == {<<>>, <<<<-3500, -3000>>>>, <<<<0, 599>>>>}
ResultBreaks == {<<>>, <<Break(-3500, -3000)>>}

\* the duration of the existing item: none, or a measured one
ExistingDurations == {Null, Num(1200)}

InitBookmarks ==
    /\ InitParse
    /\ InitTimingIdle
    /\ InitProgressIdle
    /\ InitOther
    /\ durationMs \in ExistingDurations
    /\ \E ivs \in ResultObjects :
          /\ objectStarts = [i \in 1..Len(ivs) |-> Num(ivs[i][1])]
          /\ objectEnds = [i \in 1..Len(ivs) |-> Num(ivs[i][2])]
    /\ breakPeriods \in ResultBreaks
    /\ \E times \in SeqsUpTo(BookmarkTimes, MaxBookmarks) :
          bookmarks = [i \in 1..Len(times) |-> Num(times[i])]
    /\ objectRanges = <<>>
    /\ breakRanges = <<>>
    /\ bookmarkRanges = <<>>
    /\ bpc = "file"

NextBookmarks ==
    \/ BuildRangesOfResult
    \/ BuildItem

SpecBookmarks == InitBookmarks /\ [][NextBookmarks]_vars

(***************************************************************************)
(* A scan: runScannerWorkers and the events of its workers                 *)
(***************************************************************************)
NextPool ==
    \/ RunScannerWorkers
    \/ \E i \in 1..Len(pool.workers) : WorkerProgress(i)
    \/ \E i \in 1..Len(pool.workers) : WorkerComplete(i)
    \/ \E i \in 1..Len(pool.workers) : WorkerErrorMessage(i)
    \/ \E i \in 1..Len(pool.workers) : WorkerLegacyArray(i)
    \/ \E i \in 1..Len(pool.workers) : WorkerErrorEvent(i)
    \/ \E i \in 1..Len(pool.workers) : WorkerExit(i)
    \/ \E i \in 1..Len(pool.workers) : WorkerKilled(i)

SpecPool == Init /\ [][NextPool]_vars

(***************************************************************************)
(* A scan with a mapper name: headers that match and headers that do not   *)
(***************************************************************************)
\* most files in the slice of the worker of the specification of the filter
MaxFilterFiles == 2

\* texts of files beside ByAnn and ByBob:
\*   "[Metadata]" "Creator:Bob" "Version:ANN's Hard"      the version matches
\*   BOM "[metadata]" " creator : Ann "                    mark, case and spaces
\*   "[General]" "Creator:Ann"                             no section Metadata
\*   "[Metadata]" "Creator:Bob" "Version:Easy" "Creator:Ann"
\*                                             a creator after the early exit
FilterContents ==
    { ByAnn, ByBob,
      <<<<"[","M","e","t","a","d","a","t","a","]">>, <<"C","r","e","a","t","o","r",":","B","o","b">>, <<"V","e","r","s","i","o","n",":","A","N","N","'","s"," ","H","a","r","d">>>>,
      <<<<"BOM","[","m","e","t","a","d","a","t","a","]">>, <<" ","c","r","e","a","t","o","r"," ",":"," ","A","n","n"," ">>>>,
      <<<<"[","G","e","n","e","r","a","l","]">>, <<"C","r","e","a","t","o","r",":","A","n","n">>>>,
      <<<<"[","M","e","t","a","d","a","t","a","]">>, <<"C","r","e","a","t","o","r",":","B","o","b">>, <<"V","e","r","s","i","o","n",":","E","a","s","y">>, <<"C","r","e","a","t","o","r",":","A","n","n">>>> }

\* mapper names: none, a name in capitals, a part of a name
FilterNames == {<<>>, <<"A","N","N">>, <<"n","n">>}

InitFilter ==
    /\ InitParse
    /\ InitTimingIdle
    /\ InitRangesIdle
    /\ InitProgressIdle
    /\ InitStorageIdle
    /\ InitLibraryIdle
    /\ InitListsIdle
    /\ workerData \in [filePaths : SeqsUpTo([stat : {TRUE}, known : BOOLEAN,
                                             readable : BOOLEAN,
                                             content : FilterContents],
                                            MaxFilterFiles),
                        mapperName : FilterNames]
    /\ scanTask = [pc |-> "start", io |-> <<>>]
    /\ messages = <<>>
    /\ pool = PoolIdle

SpecFilter == InitFilter /\ [][NextScan]_vars





(***************************************************************************)
(* Claims                                                                  *)
(***************************************************************************)

\* C1: every hit object of the result of parseOsuFile has
\* hitEnds[i] >= hitStarts[i]
C1_EndNotBeforeStart ==
    wpc = "done" =>
        \A i \in 1..Len(result.hitStarts) : result.hitEnds[i] >= result.hitStarts[i]


\* the eight section names of the format and their identifiers
KnownSections ==
    { [name |-> <<"g","e","n","e","r","a","l">>, id |-> SECTIONS.GENERAL],
      [name |-> <<"e","d","i","t","o","r">>, id |-> SECTIONS.EDITOR],
      [name |-> <<"m","e","t","a","d","a","t","a">>, id |-> SECTIONS.METADATA],
      [name |-> <<"d","i","f","f","i","c","u","l","t","y">>, id |-> SECTIONS.DIFFICULTY],
      [name |-> <<"e","v","e","n","t","s">>, id |-> SECTIONS.EVENTS],
      [name |-> <<"t","i","m","i","n","g","p","o","i","n","t","s">>, id |-> SECTIONS.TIMING_POINTS],
      [name |-> <<"c","o","l","o","u","r","s">>, id |-> SECTIONS.COLOURS],
      [name |-> <<"h","i","t","o","b","j","e","c","t","s">>, id |-> SECTIONS.HIT_OBJECTS] }

\* C8: the active section of parseOsuFile is the one named by the most recent
\* header line: each of the eight known names, in any letter case, gives its
\* own section identifier, any other name (and the start of the file) gives
\* the identifier NONE, in which no handler runs
C8_SectionOfLastHeader ==
    LET name == SectionNameAt(Len(content))
    IN  /\ \A ks \in KnownSections : name = ks.name => section = ks.id
        /\ (\A ks \in KnownSections : name # ks.name) => section = SECTIONS.NONE

\* C7: when a hit object is accepted by parseOsuFile, the stored end of the
\* object before it becomes max(previous end, start of the new object) if
\* that object was a slider and is unchanged otherwise; no stored start and
\* no other stored end ever changes
C7_GapFill ==
    [][ LET acc == AcceptedLines(Len(content))
            s == At(hitStartsArray', hitCount + 1)
        IN  /\ \A i \in 1..hitCount : At(hitStartsArray', i) = At(hitStartsArray, i)
            /\ \A i \in 1..(hitCount - 1) : At(hitEndsArray', i) = At(hitEndsArray, i)
            /\ hitCount > 0 =>
                 At(hitEndsArray', hitCount) =
                    IF hitCount' = hitCount + 1 /\ IsSliderLine(acc[hitCount].line)
                    THEN Max(At(hitEndsArray, hitCount), s)
                    ELSE At(hitEndsArray, hitCount)
      ]_vars


\* the end time the slider rule gives: time + max(0, floor(duration)) with
\* duration = (length / (sliderMultiplier * 100 * sv)) * beatLength * slides
RuleEnd(time, length, slides, multiplier, beatLength, sv) ==
    JsAdd(time,
          JsMax(Num(0),
                JsFloor(JsMul(JsMul(JsDiv(length, JsMul(JsMul(multiplier, Num(100)), sv)),
                                    beatLength),
                              slides))))

\* the end the slider rule gives for the accepted line j, timing being the
\* resolver's result at the time of the line
SliderLineEnd(j, timing) ==
    LET f == Fields(j)
        time == parseInt(f[3])
    IN  IF Len(f) >= 8
        THEN RuleEnd(time, JsOr(parseFloat(f[8]), Num(0)), JsOr(parseInt(f[7]), Num(1)),
                     MultiplierAt(j - 1), timing.beatLength, timing.sv)
        ELSE time

\* C6: the end stored for a line with the slider bit is
\* time + max(0, floor((length / (sliderMultiplier * 100 * sv)) * beatLength * slides))
\* when the line has at least 8 fields (slides 1 and length 0 when the field is
\* not a number or is 0, beatLength and sv from the resolver at time) and is
\* the start with fewer fields; without timing points beatLength is 500 and
\* sv is 1.  Checked on the entry of the last accepted line, which no gap
\* fill has touched yet.
C6_SliderEnd ==
    LET acc == AcceptedLines(Len(content))
        j == acc[Len(acc)].line
        points == TimingPointsAt(j - 1)
        time == parseInt(Fields(j)[3])
    IN  (rline = Len(content) /\ Len(acc) > 0 /\ IsSliderLine(j)) =>
          /\ hitCount = Len(acc)
          /\ At(hitEndsArray, hitCount) = ToInt32(SliderLineEnd(j, getTimingInfo(time, points)))
          /\ hitEnds[Len(hitEnds)] = SliderLineEnd(j, getTiming(time, points))
          /\ points = <<>> =>
                At(hitEndsArray, hitCount) =
                    ToInt32(SliderLineEnd(j, [beatLength |-> Num(500), sv |-> Num(1)]))

\* a slider of length 100 at 0 under an inherited point of SV 2: it ends at 250
C6_Witness ==
    /\ Len(content) = 4
    /\ Len(AcceptedLines(4)) = 1
    /\ AcceptedLines(4)[1].line = 4
    /\ IsSliderLine(4)
    /\ Len(Fields(4)) >= 8
    /\ hitCount = 1
    /\ Len(timingPoints) = 1
    /\ At(hitEndsArray, 1) = 250


\* the end entry i of the result must hold: the end of the i-th accepted
\* object, raised to the start of the next one when the object is a slider
ExpectedEnd(acc, i) ==
    IF i < Len(acc) /\ IsSliderLine(acc[i].line)
    THEN ToInt32(JsMax(Num(ToInt32(acc[i].object.end)), acc[i + 1].object.start))
    ELSE ToInt32(acc[i].object.end)

\* C3: in the result of parseOsuFile, hitStarts and hitEnds both have as many
\* entries as the file has accepted hit-object lines, and entry i holds the
\* start and the end of the i-th accepted line in file order, also when the
\* arrays had to grow
C3_ParallelArrays ==
    wpc = "done" =>
        LET acc == AcceptedLines(Len(content))
        IN  /\ Len(result.hitStarts) = Len(acc)
            /\ Len(result.hitEnds) = Len(acc)
            /\ \A i \in 1..Len(acc) :
                  /\ result.hitStarts[i] = ToInt32(acc[i].object.start)
                  /\ result.hitEnds[i] = ExpectedEnd(acc, i)

\* a returned result of more entries than the arrays held at allocation, from
\* a file that also has a line that was not accepted
C3_Witness ==
    /\ wpc = "done"
    /\ Len(result.hitStarts) > MinCapacity
    /\ hitStartsArray.length = 2 * MinCapacity
    /\ Len(content) - 1 > Len(result.hitStarts)
    /\ result.hitStarts[MinCapacity + 1] = 10 * (MinCapacity + 2)


\* the rule of the claim for one scanned point tp: a and b are the locals of
\* the resolver before and after
PointRule(tp, a, b) ==
    IF tp.uninherited
    THEN b.activeBPM = tp.beatLength /\ b.activeSV = Num(1)
    ELSE /\ b.activeBPM = a.activeBPM
         /\ IF JsLt(tp.beatLength, Num(0))
            THEN b.activeSV = JsDiv(Num(-100), tp.beatLength)
            ELSE b.activeSV = a.activeSV

\* C4: each point a resolver scans changes its locals by the rule: an
\* uninherited point sets the beat length and resets the scroll velocity to 1,
\* an inherited point with negative beat length sets the scroll velocity to
\* -100 / beatLength, any other inherited point leaves the scroll velocity
\* unchanged; in getTimingInfo as in getTiming
C4_InheritedAsymmetry ==
    [][ /\ gtiScan'.i = gtiScan.i + 1 => PointRule(qpoints[gtiScan.i], gtiScan, gtiScan')
        /\ gtScan'.i = gtScan.i + 1 => PointRule(qpoints[gtScan.i], gtScan, gtScan')
      ]_vars

\* the points before the first one whose time is greater than the query time
PrecedingPoints(points, time) ==
    LET later == {i \in 1..Len(points) : JsGt(points[i].time, time)}
    IN  IF later = {} THEN points
        ELSE SubSeq(points, 1, (CHOOSE i \in later : \A k \in later : i <= k) - 1)

RECURSIVE FoldPoints(_, _, _)
\* the fold of the loop body Body(tp, st) over a list of points
FoldPoints(Body(_, _), points, st) ==
    IF points = <<>> THEN st
    ELSE FoldPoints(Body, Tail(points), Body(Head(points), st))

\* C5: the result of the resolver is the fold of its loop body, from beat
\* length 500 and scroll velocity 1, over exactly the points before the first
\* point whose time is greater than the query time; (500, 1) when there is no
\* such point to fold, and (500, 2) for the points (0, 500, uninherited),
\* (1000, -50, inherited) at 1500
C5_PrefixFold ==
    LET start == [beatLength |-> Num(500), sv |-> Num(1)]
        pre == PrecedingPoints(qpoints, qtime)
        info == [beatLength |-> gtiScan.activeBPM, sv |-> gtiScan.activeSV]
        timing == [beatLength |-> gtScan.activeBPM, sv |-> gtScan.activeSV]
    IN  /\ gtiScan.done =>
              /\ info = FoldPoints(getTimingInfoBody, pre, start)
              /\ info = getTimingInfo(qtime, qpoints)
              /\ pre = <<>> => info = start
              /\ (qtime = Num(1500) /\ qpoints = <<TP(Num(0), Num(500), TRUE),
                                                   TP(Num(1000), Num(-50), FALSE)>>)
                    => info = [beatLength |-> Num(500), sv |-> Num(2)]
        /\ gtScan.done =>
              /\ timing = FoldPoints(getTimingBody, pre, start)
              /\ timing = getTiming(qtime, qpoints)

\* getTimingInfo has returned from a list in which a point at or before the
\* query time follows the first point after it
C5_Witness ==
    /\ gtiScan.done
    /\ qtime = Num(1500)
    /\ Len(qpoints) = 3
    /\ qpoints[2] = TP(Num(2000), Num(300), TRUE)
    /\ qpoints[3] = TP(Num(1000), Num(-50), FALSE)
    /\ gtiScan.i = 2

Normalised(r) == JsLe(Num(0), r.start) /\ JsLt(r.start, r.end) /\ JsLe(r.end, Num(1))

\* C2: every range returned by buildHighlightRanges, buildBreakRanges and
\* buildBookmarkRanges has 0 <= start < end <= 1
C2_RangesNormalised ==
    /\ \A k \in 1..Len(objectRanges) : Normalised(objectRanges[k])
    /\ \A k \in 1..Len(breakRanges) : Normalised(breakRanges[k])
    /\ \A k \in 1..Len(bookmarkRanges) : Normalised(bookmarkRanges[k])

\* floor(t / duration * 120) clamped to 119, for 0 <= t and 0 < duration
RuleBin(t, duration) ==
    LET b == (t * HighlightBins) \div duration
    IN  IF b > HighlightBins - 1 THEN HighlightBins - 1 ELSE b
\* the bins that some object interval with 0 <= start <= duration covers
RuleFilled ==
    UNION { LET s == objectStarts[i].n
                e == objectEnds[i].n
                m == IF e > s THEN e ELSE s
            IN  IF 0 <= s /\ s <= durationMs.n
                THEN RuleBin(s, durationMs.n)..RuleBin(m, durationMs.n)
                ELSE {} : i \in 1..Len(objectStarts) }
\* the first bins of the maximal runs of the set filled
RunStarts(filled) == {i \in filled : (i - 1) \notin filled}
\* the last bin of the maximal run that starts at bin i
RunLast(filled, i) ==
    CHOOSE j \in i..(HighlightBins - 1) :
        (j + 1) \notin filled /\ \A b \in i..j : b \in filled
RuleRanges(filled) ==
    {Range(Rat(i, HighlightBins), Rat(RunLast(filled, i) + 1, HighlightBins), "object") :
        i \in RunStarts(filled)}

\* C9: buildHighlightRanges returns exactly the maximal runs of filled bins,
\* run [i, j] as start i/120 and end (j+1)/120, in ascending order with an
\* empty bin between consecutive ranges; intervals with start < 0 or
\* start > duration fill no bin
C9_MaximalRuns ==
    bpc # "object" =>
        LET runs == RuleRanges(RuleFilled)
        IN  /\ {objectRanges[k] : k \in 1..Len(objectRanges)} = runs
            /\ Len(objectRanges) = Cardinality(runs)
            /\ \A k \in 1..(Len(objectRanges) - 1) :
                  JsLt(objectRanges[k].end, objectRanges[k + 1].start)

\* three objects, one of them with start < 0, give two runs, the second one
\* clamped into the last bin
C9_Witness ==
    /\ bpc = "idle"
    /\ Len(objectStarts) = 3
    /\ \E i \in 1..3 : JsLt(objectStarts[i], Num(0))
    /\ Len(objectRanges) = 2
    /\ objectRanges[1] = Range(Num(0), Rat(1, 2), "object")
    /\ objectRanges[2] = Range(Rat(119, 120), Num(1), "object")

RECURSIVE TotalLength(_, _)
\* the sum of end - start over the ranges at the positions S
TotalLength(ranges, S) ==
    IF S = {} THEN Num(0)
    ELSE LET k == CHOOSE x \in S : TRUE
         IN  JsAdd(JsSub(ranges[k].end, ranges[k].start), TotalLength(ranges, S \ {k}))

ProgressRule(ranges, on) ==
    LET O == {k \in 1..Len(ranges) : ranges[k].type \in {"object", NoType}}
        B == {k \in 1..Len(ranges) : ranges[k].type = "break"}
        sum == TotalLength(ranges, O)
        first == IF O = {} THEN Num(0)
                 ELSE CHOOSE s \in {ranges[k].start : k \in O} :
                          \A k \in O : JsLe(s, ranges[k].start)
        rest == JsSub(Num(1), first)
        total == IF JsLt(rest, Rat(1, 1000)) THEN Rat(1, 1000) ELSE rest
        q == IF on THEN JsDiv(JsAdd(sum, TotalLength(ranges, B)), total) ELSE sum
    IN  IF Len(ranges) = 0 THEN Num(0)
        ELSE IF JsLt(Num(1), q) THEN Num(1) ELSE q

WithoutBookmarks(ranges) ==
    LET NotBookmark(r) == r.type # "bookmark"
    IN  SelectSeq(ranges, NotBookmark)

Round4(x) ==
    LET lo == (Abs(x.n) * 10000) \div x.d
        below == JsSub(Rat(Abs(x.n), x.d), Rat(lo, 10000))
        above == JsSub(Rat(lo + 1, 10000), Rat(Abs(x.n), x.d))
        n == IF JsLt(below, above) THEN lo ELSE lo + 1
    IN  Rat(IF x.n < 0 THEN -n ELSE n, 10000)

\* C11: deserializeHighlights(serializeHighlights(ranges)) has the length,
\* the order and the tags of ranges, and start and end rounded to 4
\* decimals; serializing the result again gives the same serialized form
C11_RoundTrip ==
    /\ spc = "saved" =>
          LET back == deserializeHighlights(storedHighlights)
          IN  /\ Len(back) = Len(highlights)
              /\ \A i \in 1..Len(back) :
                    /\ back[i].type = highlights[i].type
                    /\ back[i].start = Round4(highlights[i].start)
                    /\ back[i].end = Round4(highlights[i].end)
              /\ serializeHighlights(back) = storedHighlights
    /\ spc = "loaded" => serializeHighlights(highlights) = storedHighlights

\* a saved item with a break range that starts at 1/32 = 0.03125, stored as
\* 0.0313, after an object range and before a bookmark range
C11_Witness ==
    /\ spc = "saved"
    /\ Len(highlights) = 3
    /\ highlights[1].type = "object"
    /\ highlights[2] = Range(Rat(1, 32), Rat(1, 3), "break")
    /\ highlights[3].type = "bookmark"
    /\ storedHighlights[2] = <<Rat(313, 10000), Rat(3333, 10000), "b">>

\* C12: an item that is shown or saved with a measured durationMs has the
\* highlights built for that duration (while the files do not change)
C12_HighlightsForDuration ==
    /\ \A k \in 1..Len(rendered) :
          rendered[k].durationMs.some =>
              rendered[k].highlights =
                  buildHighlights(FileData(rendered[k].filePath, 1),
                                  rendered[k].durationMs.val)
    /\ \A k \in 1..Len(savedItems) :
          savedItems[k].durationMs.some =>
              savedItems[k].highlights =
                  serializeHighlights(
                      buildHighlights(FileData(savedItems[k].filePath, 1),
                                      savedItems[k].durationMs.val))

\* C13: an entry of a scan result marked unchanged is not passed to
\* processWorkerResult, its existing item goes to the new list as it is, and
\* when loadBeatmapsFromResult is done every file reported unchanged has an
\* item in beatmapItems
C13_UnchangedKept ==
    [][/\ (/\ refreshTask.pc = "load"
           /\ refreshTask'.pc = "load"
           /\ Len(refreshTask'.taskQueue) < Len(refreshTask.taskQueue)
           /\ Head(refreshTask.taskQueue).unchanged)
          => /\ heap' = heap
             /\ Len(refreshTask'.items) = Len(refreshTask.items) + 1
             /\ heap[refreshTask'.items[Len(refreshTask'.items)]].filePath
                    = Head(refreshTask.taskQueue).filePath
       /\ (refreshTask.pc = "load" /\ refreshTask'.pc = "idle")
          => \A k \in 1..Len(refreshTask.files) :
                refreshTask.files[k].unchanged
                    => \E j \in 1..Len(beatmapItems') :
                          heap[beatmapItems'[j]].filePath
                              = refreshTask.files[k].filePath]_vars

\* the files of the slice with a failed stat, and those that stat finds but
\* that cannot be read when the worker has to read them
StatFailed == {k \in 1..Len(workerData.filePaths) : ~workerData.filePaths[k].stat}
ReadFailed ==
    {k \in 1..Len(workerData.filePaths) :
        /\ workerData.filePaths[k].stat
        /\ ~workerData.filePaths[k].readable
        /\ (Needle.some \/ ~workerData.filePaths[k].known)}

\* the accounting of the 'complete' message: it is the only and the last
\* one, and results.length + skipped + errors = total, cached <= results.length
CompleteAccounts ==
    /\ \A k \in 1..Len(messages) :
          /\ messages[k].type \in {"progress", "complete"}
          /\ messages[k].type = "complete" => k = Len(messages) /\ scanTask.pc = "done"
    /\ scanTask.pc = "done" =>
          /\ Len(messages) > 0
          /\ LET msg == messages[Len(messages)]
             IN  /\ msg.type = "complete"
                 /\ Len(msg.results) + msg.stats.skipped + msg.stats.errors
                        = msg.stats.total
                 /\ msg.stats.total = Len(workerData.filePaths)
                 /\ msg.stats.cached <= Len(msg.results)
                 /\ Len(msg.stats.errorDetails) = msg.stats.errors

\* C14: a failure of one file does not abort the batch: one 'complete'
\* message, the last one, accounts for every file once, and has one error
\* entry with path and phase for every file whose stat or read failed
C14_BatchAccounts ==
    /\ CompleteAccounts
    /\ scanTask.pc = "done" =>
          LET details == messages[Len(messages)].stats.errorDetails
          IN  /\ Len(details) = Cardinality(StatFailed \cup ReadFailed)
              /\ \A k \in StatFailed :
                    \E j \in 1..Len(details) :
                        details[j] = [filePath |-> PathOf(k), phase |-> "stat"]
              /\ \A k \in ReadFailed :
                    \E j \in 1..Len(details) :
                        details[j] = [filePath |-> PathOf(k), phase |-> "parse"]

\* C15: a break period is recorded only with integers start and end and
\* end > start, by parseOsuFile as by parseBreakPeriods
C15_BreakEndAfterStart ==
    /\ wpc = "done" =>
          \A k \in 1..Len(result.breakPeriods) :
              result.breakPeriods[k].end > result.breakPeriods[k].start
    /\ bpc = "parsed" =>
          \A k \in 1..Len(breakPeriods) :
              /\ ~IsNaN(breakPeriods[k].start) /\ breakPeriods[k].start.d = 1
              /\ ~IsNaN(breakPeriods[k].end) /\ breakPeriods[k].end.d = 1
              /\ JsGt(breakPeriods[k].end, breakPeriods[k].start)

\* the line that parseOsuFile reads in this step is given to parseHitObject
\* with fewer than 4 fields, or to parseTimingPoint with fewer than 2
ReadsShortLine ==
    /\ Len(content') = Len(content) + 1
    /\ LET t == WorkerTrim(content'[Len(content')], content = <<>>)
           n == Len(split(extractTrimmed(t, 1, Len(t) + 1), ","))
       IN  /\ ~IsSkipped(t)
           /\ ~IsHeader(t)
           /\ \/ section = SECTIONS.HIT_OBJECTS /\ n < 4
              \/ section = SECTIONS.TIMING_POINTS /\ n < 2

C17_PositiveTiming ==
    gtiScan.done => JsGt(gtiScan.activeBPM, Num(0)) /\ JsGt(gtiScan.activeSV, Num(0))

\* C18: parseOsuFile does with a first line that begins with U+FEFF what it
\* does with the line without the mark, a section header included; the
\* lines after it are read from the same state, so the results are the same
C18_MarkSkipped ==
    [][(/\ content = <<>>
        /\ Len(content') = 1
        /\ Len(content'[1]) > 0
        /\ content'[1][1] = "BOM")
       => LET plain == Tail(content'[1])
          IN  WorkerEffect(extractTrimmed(plain, 1, Len(plain) + 1))]_vars

\* a file whose first line is the mark and the header of the hit objects:
\* the circle of the second line is in the result
C18_Witness ==
    /\ wpc = "done"
    /\ Len(content) = 2
    /\ content[1] = <<"BOM","[","H","i","t","O","b","j","e","c","t","s","]">>
    /\ content[2] = <<"0",",","0",",","1","0","0",",","1">>
    /\ result.hitStarts = <<100>>

\* no end of an object or of a break and no bookmark is above 0, and they
\* are not all below 0 with none of the three lists empty: Math.max of the
\* three largest times (0 for an empty list) is 0
LargestTimeIsZero ==
    LET times == {objectEnds[k] : k \in 1..Len(objectEnds)}
                 \cup {breakPeriods[k].end : k \in 1..Len(breakPeriods)}
                 \cup {bookmarks[k] : k \in 1..Len(bookmarks)}
    IN  /\ \A t \in times : JsLe(t, Num(0))
        /\ \/ Len(objectEnds) = 0 \/ Len(breakPeriods) = 0 \/ Len(bookmarks) = 0
           \/ \E t \in times : t = Num(0)

\* C19: with a total duration of 0, null or undefined the three builders
\* return an empty list, and the item that processWorkerResult builds with
\* no stored and no fallback duration has no highlights and progress 0
C19_UnknownDuration ==
    /\ (bpc \in {"break", "bookmark", "item"} /\ durationMs \in UnknownDurations)
          => objectRanges = <<>>
    /\ (bpc \in {"bookmark", "item"} /\ durationMs \in UnknownDurations)
          => breakRanges = <<>>
    /\ (bpc = "item" /\ durationMs \in UnknownDurations) => bookmarkRanges = <<>>
    /\ (bpc = "idle" /\ LargestTimeIsZero) => highlights = <<>> /\ progress = Num(0)

\* the builders were called with a duration of null and a list that is not
\* empty each, and the item was built from the same lists, whose largest
\* time is 0: no fallback duration
C19_Witness ==
    /\ bpc = "idle"
    /\ durationMs = Null
    /\ objectStarts = <<Num(-10)>>
    /\ objectEnds = <<Num(0)>>
    /\ breakPeriods = <<Break(-1, -1)>>
    /\ bookmarks = <<Num(0)>>
    /\ highlights = <<>>

\* C20: the end of an accepted hit object follows the first of the type
\* bits 2 (slider), 8 (spinner), 128 (hold) that is set: with the slider
\* bit the slider formula from 8 fields on and the start below 8 fields,
\* never the end field; with the spinner bit and no slider bit the end
\* field as a whole; with the hold bit alone the end field up to its colon
C20_FirstTypeBit ==
    [][(/\ section = SECTIONS.HIT_OBJECTS
        /\ Len(content') = Len(content) + 1
        /\ hitCount' = hitCount + 1)
       => LET line == WorkerTrim(content'[Len(content')], content = <<>>)
              parts == split(line, ",")
              time == parseInt(parts[3])
              type == parseInt(parts[4])
              slider == BitSet(type, 1)
              spinner == BitSet(type, 3)
              hold == BitSet(type, 7)
              timing == getTimingInfo(time, timingPoints)
              end == At(hitEndsArray', hitCount')
              EndIs(t) == end = ToInt32(JsMax(time, t))
          IN  /\ (slider /\ Len(parts) < 8) => end = ToInt32(time)
              /\ (slider /\ Len(parts) >= 8) =>
                    EndIs(sliderEnd(time, JsOr(parseInt(parts[7]), Num(1)),
                                    JsOr(parseFloat(parts[8]), Num(0)),
                                    sliderMultiplier, timing))
              /\ (~slider /\ spinner /\ Len(parts) >= 6) =>
                    EndIs(JsOr(parseInt(parts[6]), time))
              /\ (~slider /\ ~spinner /\ hold /\ Len(parts) >= 6) =>
                    EndIs(JsOr(parseInt(split(parts[6], ":")[1]), time))
              /\ (~slider /\ ~spinner /\ ~hold) => end = ToInt32(time)]_vars

\* a line of 6 fields with the slider and the spinner bit (type 10) and the
\* end field 900: the object ends where it starts, at 100
C20_Witness ==
    /\ wpc = "done"
    /\ Len(content) = 2
    /\ content[2] = <<"0",",","0",",","1","0","0",",","1","0",",","0",",","9","0","0">>
    /\ result.hitStarts = <<100>>
    /\ result.hitEnds = <<100>>

\* the lines among the first k that set the slider multiplier: lines of the
\* section Difficulty whose key, up to the colon, is SliderMultiplier
MultiplierLines(k) ==
    {j \in 1..k :
        /\ SectionNameAt(j - 1) = NAME_DIFFICULTY
        /\ ~IsSkipped(LineText(j)) /\ ~IsHeader(LineText(j))
        /\ indexOf(LineText(j), ":", 1) > 0
        /\ toLowerCase(trim(Slice(LineText(j), 1, indexOf(LineText(j), ":", 1))))
              = KEY_SLIDERMULTIPLIER}

\* the multiplier in force after the first k lines: the value of the last
\* SliderMultiplier line, 1 when the value is 0 or not a number or when there
\* is no such line
MultiplierInForce(k) ==
    IF MultiplierLines(k) = {} THEN Num(1)
    ELSE LET j == CHOOSE m \in MultiplierLines(k) : \A n \in MultiplierLines(k) : n <= m
             t == LineText(j)
             v == parseFloat(trim(Slice(t, indexOf(t, ":", 1) + 1, Len(t) + 1)))
         IN  IF v.nan \/ v.n = 0 THEN Num(1) ELSE v

\* C21: a slider line of 8 fields that parseOsuFile accepts ends at the time
\* the slider rule gives with the multiplier of the last SliderMultiplier
\* line before it (1 without such a line or for a value that is 0 or not a
\* number) and the timing points of the lines before it; a later line
\* changes no stored end, except that the next accepted object may raise
\* the end of the object before it to its own start
C21_PrecedingDeclarations ==
    [][Len(content') = Len(content) + 1 =>
        LET k == Len(content)
            t == WorkerTrim(content'[k + 1], k = 0)
            f == split(t, ",")
            time == parseInt(f[3])
            timing == getTimingInfo(time, TimingPointsAt(k))
        IN  /\ \A i \in 1..(hitCount - 1) : At(hitEndsArray', i) = At(hitEndsArray, i)
            /\ (hitCount' = hitCount /\ hitCount > 0) =>
                  At(hitEndsArray', hitCount) = At(hitEndsArray, hitCount)
            /\ (hitCount' = hitCount + 1 /\ hitCount > 0) =>
                  At(hitEndsArray', hitCount)
                      \in {At(hitEndsArray, hitCount), At(hitStartsArray', hitCount')}
            /\ (hitCount' = hitCount + 1 /\ BitSet(parseInt(f[4]), 1) /\ Len(f) >= 8) =>
                  At(hitEndsArray', hitCount') =
                      ToInt32(RuleEnd(time, JsOr(parseFloat(f[8]), Num(0)),
                                      JsOr(parseInt(f[7]), Num(1)),
                                      MultiplierInForce(k),
                                      timing.beatLength, timing.sv))]_vars

\* "[Difficulty]", "SliderMultiplier:2", "SliderMultiplier:x", "[HitObjects]"
\* and a slider of length 100 at 0: the multiplier in force is 1 and the
\* slider ends at 500 (at 250 under the multiplier 2)
C21_Witness ==
    /\ wpc = "done"
    /\ Len(content) = 5
    /\ MultiplierLines(5) = {2, 3}
    /\ MultiplierInForce(2) = Num(2)
    /\ MultiplierInForce(3) = Num(1)
    /\ result.hitEnds = <<500>>
    /\ Len(Fields(5)) >= 8
    /\ IsSliderLine(5)

\* the lines of the [Events] section of the file read so far whose first
\* field is the word break, in any letter case, followed by two integers
BreakWordLines ==
    {k \in 2..Len(content) :
        /\ content[1] = EVENTS_HEADER
        /\ Len(split(content[k], ",")) >= 3
        /\ toLowerCase(split(content[k], ",")[1]) = BREAK_TOKEN
        /\ ~IsNaN(parseInt(split(content[k], ",")[2]))
        /\ ~IsNaN(parseInt(split(content[k], ",")[3]))}

\* C22: a line "break,<start>,<end>" of the [Events] section, in any letter
\* case, yields the break period that "2,<start>,<end>" yields: the period
\* from start to end is in the result of parseOsuFile, and in the list of
\* parseBreakPeriods when the end is after the start
C22_BreakWord ==
    \A k \in BreakWordLines :
        LET s == parseInt(split(content[k], ",")[2])
            e == parseInt(split(content[k], ",")[3])
        IN  /\ wpc = "done" =>
                  \E j \in 1..Len(result.breakPeriods) :
                      result.breakPeriods[j] = [start |-> s.n, end |-> e.n]
            /\ (bpc = "parsed" /\ JsGt(e, s)) =>
                  \E j \in 1..Len(breakPeriods) :
                      breakPeriods[j] = [start |-> s, end |-> e]

\* the bin a bookmark at t >= 0 marks for a duration above 0:
\* min(199, floor(t / duration * 200))
MarkedBin(t, duration) ==
    LET b == (t * BookmarkBins) \div duration
    IN  IF b > BookmarkBins - 1 THEN BookmarkBins - 1 ELSE b

\* the bins that the bookmarks at hand mark: those of the times t >= 0
MarkedBins(duration) ==
    {MarkedBin(bookmarks[i].n, duration.n) :
        i \in {j \in 1..Len(bookmarks) : bookmarks[j].n >= 0 /\ duration.n > 0}}

\* C23: buildBookmarkRanges returns one range for each bin that a bookmark
\* marks, in ascending order of the bins: a bookmark at t >= 0 marks the bin
\* min(199, floor(t / duration * 200)), a bookmark below 0 marks none, and
\* the range of the bin b is b/200 to (b + 1.2)/200, tagged bookmark
C23_BookmarkBins ==
    LET total == totalDuration(durationMs, FileAtHand)
        marked == MarkedBins(total)
    IN  (bpc # "file" /\ ~JsFalsy(total)) =>
          /\ Len(bookmarkRanges) = Cardinality(marked)
          /\ \A k \in 1..Len(bookmarkRanges) :
                \E b \in marked :
                    bookmarkRanges[k] = Range(Rat(b, 200), Rat(10 * b + 12, 2000), "bookmark")
          /\ \A k \in 1..(Len(bookmarkRanges) - 1) :
                JsLt(bookmarkRanges[k].start, bookmarkRanges[k + 1].start)

\* how often the path p stands in the chunks of the workers
TimesInChunks(p) ==
    Cardinality({ij \in (1..Len(pool.workers)) \X (1..MaxPoolFiles + 1) :
                    /\ ij[2] <= Len(pool.workers[ij[1]].chunk)
                    /\ pool.workers[ij[1]].chunk[ij[2]] = p})

\* the results of the 'complete' messages of the workers 1..k, in worker order
RECURSIVE PostedUpTo(_)
PostedUpTo(k) ==
    IF k = 0 THEN <<>> ELSE PostedUpTo(k - 1) \o pool.workers[k].posted.val

\* C24: runScannerWorkers starts at most min(cores, 4) workers, and none for
\* an empty list of files; every file path is in the chunk of exactly one
\* worker, exactly once; and the value the scan resolves with is the
\* concatenation, in worker order, of the results of the workers' 'complete'
\* messages
C24_WorkerPool ==
    pool.pc = "running" =>
        /\ Len(pool.workers) <= pool.cores
        /\ Len(pool.workers) <= 4
        /\ Len(pool.filePaths) = 0 => Len(pool.workers) = 0
        /\ \A k \in 1..Len(pool.filePaths) : TimesInChunks(pool.filePaths[k]) = 1
        /\ \A i \in 1..Len(pool.workers) :
              \A j \in 1..Len(pool.workers[i].chunk) :
                  \E k \in 1..Len(pool.filePaths) :
                      pool.workers[i].chunk[j] = pool.filePaths[k]
        /\ pool.promise.state = "resolved" =>
              /\ \A i \in 1..Len(pool.workers) : pool.workers[i].posted.some
              /\ pool.promise.value = PostedUpTo(Len(pool.workers))

\* 5 files on a machine of 8 cores: chunks of 2, 2 and 1 file for 3
\* workers, and the scan resolved with the results of the 3 workers, 4 entries
C24_Witness ==
    /\ pool.pc = "running"
    /\ Len(pool.filePaths) = 5
    /\ pool.cores >= 4
    /\ Len(pool.workers) = 3
    /\ Len(pool.workers[3].chunk) = 1
    /\ pool.promise.state = "resolved"
    /\ Len(pool.promise.value) = 4
    /\ pool.promise.value[1].filePath = PathOf(2)

\* what a step of worker w to w2 may do to the promise of the worker
SettlesAsClaimed(w, w2) ==
    LET pending == w.promise.state = "pending"
        posts == ~w.posted.some /\ w2.posted.some
    IN  \* once settled, the promise stays as it is
        /\ ~pending => w2.promise = w.promise
        \* a 'progress' message leaves it pending
        /\ (w.thread = "running" /\ w2.thread = "reported") => w2.promise = w.promise
        \* it is resolved only by results that the worker posted, and with them
        /\ (pending /\ w2.promise.state = "resolved") =>
              posts /\ w2.promise.value = w2.posted.val
        \* results posted, in a 'complete' message or as a bare array, resolve it
        /\ (pending /\ posts) => w2.promise = Resolved(w2.posted.val)
        \* an 'error' message rejects it
        /\ (pending /\ w.thread \in {"running", "reported"} /\ w2.thread = "finished"
              /\ ~posts) => w2.promise.state = "rejected"
        \* an 'error' event rejects it
        /\ (pending /\ w.thread # "crashed" /\ w2.thread = "crashed") =>
              w2.promise.state = "rejected"
        \* an exit code other than 0 rejects it
        /\ (pending /\ ~w.code.some /\ w2.code.some /\ w2.code.val # 0) =>
              w2.promise.state = "rejected"

\* C25: the promise of a scanner worker is not resolved by a 'progress'
\* message; it is resolved only with the results of a 'complete' message or
\* of a bare array, and is resolved by them; it is rejected by an 'error'
\* message, an 'error' event and an exit code other than 0; it is settled
\* once; and when every worker has terminated the scan is resolved or
\* rejected
C25_SettlesOnce ==
    [][pool.pc = "running" =>
        /\ \A i \in 1..Len(pool.workers) :
              SettlesAsClaimed(pool.workers[i], pool'.workers[i])
        /\ (\A i \in 1..Len(pool.workers) : pool'.workers[i].thread = "exited")
              => pool'.promise.state # "pending"]_vars

\* the text s contains the text sub, whatever the case of the letters
ContainsIgnoringCase(s, sub) ==
    \E i \in 1..(Len(s) + 1) :
        /\ i + Len(sub) - 1 <= Len(s)
        /\ \A k \in 1..Len(sub) : LowerChar(s[i + k - 1]) = LowerChar(sub[k])

\* the creator or the version of the header of the file at path contains
\* the mapper name
NameInHeader(path) ==
    \E k \in 1..Len(workerData.filePaths) :
        /\ PathOf(k) = path
        /\ LET meta == parseMetadataFromHeader(readOsuHeader(workerData.filePaths[k]))
           IN  \/ ContainsIgnoringCase(meta.creator, workerData.mapperName)
               \/ ContainsIgnoringCase(meta.version, workerData.mapperName)

\* the results of the worker so far, and at the end those of its
\* 'complete' message
ResultsSoFar ==
    IF scanTask.pc = "loop" THEN scanTask.results
    ELSE IF Len(messages) > 0 /\ messages[Len(messages)].type = "complete"
    THEN messages[Len(messages)].results
    ELSE <<>>

\* C26: with a mapper name, the worker reads a file in full only after it
\* has read its header and found the name in the creator or the version of
\* the header, whatever the case of the letters; and a file whose header
\* has the name in neither is not in the results, be it in the cache of
\* known files or not
C26_FilterBeforeParse ==
    workerData.mapperName # <<>> =>
        /\ \A j \in 1..Len(scanTask.io) :
              scanTask.io[j].op = "readFile" =>
                  /\ \E i \in 1..(j - 1) :
                        scanTask.io[i] = [op |-> "readOsuHeader", path |-> scanTask.io[j].path]
                  /\ NameInHeader(scanTask.io[j].path)
        /\ \A k \in 1..Len(ResultsSoFar) : NameInHeader(ResultsSoFar[k].filePath)

\* the name ANN and two files, both in the cache: "Creator:Bob" with
\* "Version:ANN's Hard", which is in the results, and the file by Bob, which
\* is not; no file was read in full
C26_Witness ==
    /\ scanTask.pc = "done"
    /\ workerData.mapperName = <<"A","N","N">>
    /\ Len(workerData.filePaths) = 2
    /\ workerData.filePaths[1].known /\ workerData.filePaths[2].known
    /\ workerData.filePaths[2].content = ByBob
    /\ Len(scanTask.io) = 2
    /\ Len(ResultsSoFar) = 1
    /\ ResultsSoFar[1] = [filePath |-> PathOf(1), unchanged |-> TRUE]
    /\ parseMetadataFromHeader(workerData.filePaths[1].content).version
          = <<"A","N","N","'","s"," ","H","a","r","d">>

\* C27: parseHitObjects (renderer) and parseOsuFile (worker) return the same
\* hitStarts and the same hitEnds for the same file text
C27_ParsersAgree ==
    (wpc = "done" /\ rpc = "done") =>
        /\ Len(hitStarts) = Len(result.hitStarts)
        /\ Len(hitEnds) = Len(result.hitEnds)
        /\ \A k \in 1..Len(hitStarts) : hitStarts[k] = Num(result.hitStarts[k])
        /\ \A k \in 1..Len(hitEnds) : hitEnds[k] = Num(result.hitEnds[k])

(***************************************************************************)
(* The lists under any sequence of toggles                                  *)
(***************************************************************************)

NextTodo ==
    \/ \E id \in ListIds : toggleTodo(id)
    \/ \E id \in ListIds : toggleDone(id)

SpecTodo == Init /\ [][NextTodo]_vars

NoDuplicates(arr) == \A j, k \in 1..Len(arr) : arr[j] = arr[k] => j = k

\* C28: no id is in both todoIds and doneIds and neither list holds an id twice
C28_ListsDisjoint ==
    /\ \A id \in ListIds : ~(IdIncludes(todoIds, id) /\ IdIncludes(doneIds, id))
    /\ NoDuplicates(todoIds)
    /\ NoDuplicates(doneIds)

(***************************************************************************)
(* Imports, cache loads, audio measurements and toggles of the setting      *)
(***************************************************************************)
\* the directory is imported once, into the empty list
NextSetting ==
    \/ (Len(heap) = 0 /\ RefreshLastDirectory)
    \/ ScanReturns
    \/ ProcessNext
    \/ LoadBeatmapsFromResult
    \/ AudioMeasured
    \/ AudioRead
    \/ AudioYield
    \/ SaveTimerFires
    \/ SettingToggled
    \/ Startup

SpecSetting == InitAudio /\ [][NextSetting]_vars

\* C29: every item of beatmapItems has the progress that computeProgress gives
\* for its highlights under the current ignoreStartAndBreaks setting
C29_ProgressCurrent ==
    \A k \in 1..Len(beatmapItems) :
        heap[beatmapItems[k]].progress =
            computeProgress(heap[beatmapItems[k]].highlights,
                            settings.ignoreStartAndBreaks)

(***************************************************************************)
(* The audio analysis queue while directories are imported and tabs change  *)
(***************************************************************************)
Tabs == {"all", "todo", "completed"}

NextQueue ==
    \/ RefreshLastDirectory
    \/ ScanReturns
    \/ ProcessNext
    \/ LoadBeatmapsFromResult
    \/ AudioMeasured
    \/ AudioRead
    \/ AudioYield
    \/ \E tab \in Tabs : TabClicked(tab)

SpecQueue == InitAudio /\ [][NextQueue]_vars

\* the item with the id is in the list h/items and waits for its duration
AwaitsDuration(h, items, id) ==
    LET found == Find(h, items, id)
    IN  found.some /\ h[found.val].audio # "" /\ ~h[found.val].durationMs.some

\* a loop is running exactly while isAnalyzingAudio is set, and the queue
\* holds no id twice (true of the empty queue of the initial state)
QueueInvariant ==
    /\ isAnalyzingAudio <=> audioTask.pc # "idle"
    /\ NoDuplicates(audioAnalysisQueue)

\* a step of an import made while a loop is running leaves the loop alone
\* and keeps the queue as a prefix of the new queue
NoSecondLoop ==
    (isAnalyzingAudio /\ refreshTask' # refreshTask) =>
        /\ audioTask' = audioTask
        /\ isAnalyzingAudio'
        /\ Len(audioAnalysisQueue') >= Len(audioAnalysisQueue)
        /\ SubSeq(audioAnalysisQueue', 1, Len(audioAnalysisQueue)) = audioAnalysisQueue

\* an id of the queue whose item is in the list after the step and awaits
\* its duration is still in the queue or is the one taken to be measured
NotDropped ==
    \A k \in 1..Len(audioAnalysisQueue) :
        AwaitsDuration(heap', beatmapItems', audioAnalysisQueue[k]) =>
            \/ \E j \in 1..Len(audioAnalysisQueue') :
                  audioAnalysisQueue'[j] = audioAnalysisQueue[k]
            \/ /\ audioTask'.pc = "measure"
               /\ heap'[audioTask'.item].id = audioAnalysisQueue[k]

\* C30: at most one analysis loop runs, and a call made while it runs leaves
\* the loop and the queue alone; the queue holds no id twice; a loop that has
\* ended has reset isAnalyzingAudio; a scheduled id whose item stays in
\* beatmapItems leaves the queue only by being taken for measurement
C30_AudioQueue == [][QueueInvariant' /\ NoSecondLoop /\ NotDropped]_vars

====
